---- MODULE Spec2Model ----
(***************************************************************************)
(* Land Inventory Configuration Engine of schema.sql: the tables           *)
(* land_blocks, land_plots and property_land_configurations, their         *)
(* constraints and unique indexes, and the PL/pgSQL functions that save,   *)
(* duplicate and apply a configuration.  Every function call is one SQL    *)
(* statement of its session and therefore one transaction: its writes go   *)
(* to the session's write set and reach the tables only when the call      *)
(* returns; an error raised inside the function discards the write set.    *)
(* Statements inside a function run under READ COMMITTED: each sees the    *)
(* committed rows plus the session's own writes.                           *)
(***************************************************************************)
EXTENDS Integers, Sequences, FiniteSets, TLC

----------------------------------------------------------------------------
(* Bounds of the model *)

\* number of calls the callers make in one behaviour
MaxCalls == 3

----------------------------------------------------------------------------
(* Values *)

\* SQL NULL, and JSON null / an absent key as seen through ->>
NULL == "NULL"

\* rows of the properties table
Properties == {1, 2}

\* database sessions; the sequential specification uses only session 1
Sessions == {1, 2}

UpperLetters == "ABCDEFGHIJKLMNOPQRSTUVWXYZ"
LowerLetters == "abcdefghijklmnopqrstuvwxyz"

\* LOWER() on one character
LowerChar(ch) ==
  IF \E i \in 1..Len(UpperLetters) : SubSeq(UpperLetters, i, i) = ch
  THEN LET i == CHOOSE k \in 1..Len(UpperLetters) : SubSeq(UpperLetters, k, k) = ch
       IN SubSeq(LowerLetters, i, i)
  ELSE ch

RECURSIVE Lower(_)
\* LOWER() on a text
Lower(str) == IF str = "" THEN "" ELSE LowerChar(Head(str)) \o Lower(Tail(str))

----------------------------------------------------------------------------
(* Text and integer operations of get_next_plot_number *)

\* the largest value of the type INTEGER
MaxInteger == 2147483647

DigitChars == "0123456789"

\* \d of the regular expression
IsDigit(ch) == \E i \in 1..Len(DigitChars) : SubSeq(DigitChars, i, i) = ch

DigitValue(ch) == (CHOOSE i \in 1..Len(DigitChars) : SubSeq(DigitChars, i, i) = ch) - 1

RECURSIVE AllDigits(_)
\* \d+ matches the whole of str
AllDigits(str) ==
  /\ str # ""
  /\ IsDigit(Head(str))
  /\ Tail(str) = "" \/ AllDigits(Tail(str))

\* plot_number ~ ('^' || plot_prefix || '\d+$'), for a prefix of letters: the
\* match is case-sensitive
MatchesPrefixDigits(plot_number, plot_prefix) ==
  /\ Len(plot_number) > Len(plot_prefix)
  /\ SubSeq(plot_number, 1, Len(plot_prefix)) = plot_prefix
  /\ AllDigits(SubSeq(plot_number, Len(plot_prefix) + 1, Len(plot_number)))

\* SUBSTRING(text FROM n)
SubstringFrom(text, n) == SubSeq(text, n, Len(text))

RECURSIVE DecimalValue(_, _)
\* the number a text of digits denotes, read after the value acc of the
\* digits before it
DecimalValue(acc, digits) ==
  IF digits = "" THEN acc
  ELSE DecimalValue(acc * 10 + DigitValue(Head(digits)), Tail(digits))

RECURSIVE StripZeros(_)
\* the digits without their leading zeros
StripZeros(digits) ==
  IF Len(digits) > 1 /\ Head(digits) = "0" THEN StripZeros(Tail(digits)) ELSE digits

RECURSIVE DigitsGreater(_, _)
\* of two texts of digits of the same length, a denotes the larger number
DigitsGreater(a, b) ==
  /\ a # ""
  /\ \/ DigitValue(Head(a)) > DigitValue(Head(b))
     \/ Head(a) = Head(b) /\ DigitsGreater(Tail(a), Tail(b))

\* (digits)::INTEGER raises "integer out of range" above MaxInteger
CastIntegerFails(digits) ==
  LET d == StripZeros(digits)
      m == ToString(MaxInteger)
  IN Len(d) > Len(m) \/ (Len(d) = Len(m) /\ DigitsGreater(d, m))

\* (digits)::INTEGER
CastInteger(digits) == DecimalValue(0, digits)

RECURSIVE Repeat(_, _)
\* n copies of the text fill
Repeat(fill, n) == IF n <= 0 THEN "" ELSE fill \o Repeat(fill, n - 1)

\* LPAD(text, len, fill) for a fill of one character: a text longer than len
\* is cut to its first len characters
LPAD(text, len, fill) ==
  IF Len(text) >= len THEN SubSeq(text, 1, len)
  ELSE Repeat(fill, len - Len(text)) \o text

\* the numeric literals the model uses
NumericLiterals == {-50, 0, 1200, 1500}

\* jsonb ->> on a JSON number built from a NUMERIC column: its text
NumericText(n) == ToString(n)

\* text::NUMERIC succeeds when the text is a numeric literal
IsNumericText(t) == \E n \in NumericLiterals : NumericText(n) = t

\* (text)::NUMERIC
CastNumeric(t) == CHOOSE n \in NumericLiterals : NumericText(n) = t

\* every sequence that enumerates the set S exactly once (jsonb_agg without
\* ORDER BY aggregates the rows in an unspecified order)
SeqsOf(S) ==
  IF S = {} THEN {<< >>}
  ELSE {q \in [1..Cardinality(S) -> S] :
          \A i, j \in 1..Cardinality(S) : q[i] = q[j] => i = j}

----------------------------------------------------------------------------
(* State *)

VARIABLES
  land_blocks,                   \* committed rows of land_blocks
  land_plots,                    \* committed rows of land_plots
  property_land_configurations,  \* committed rows of property_land_configurations
  nextId,                        \* next identifier of uuid_generate_v4()
  calls,                         \* number of calls made so far
  tx,                            \* per session: the running function call
  ret,                           \* per session: outcome of the last call
  stats,                         \* the last result a reader got from the statistics
  land_plot_status_history,      \* committed rows of land_plot_status_history
  history_table,                 \* whether that table exists, and its columns
  property_plots                 \* committed rows of property_plots

\* the status history, the shape of its table, and the plots of property_plots
audit == <<land_plot_status_history, history_table, property_plots>>

vars ==
  <<land_blocks, land_plots, property_land_configurations, nextId, calls, tx, ret, stats,
    land_plot_status_history, history_table, property_plots>>

\* a session with no call in progress
Idle ==
  [op |-> "none", pc |-> "idle",
   delB |-> {}, delP |-> {}, insB |-> {}, insP |-> {}, updC |-> {}, insC |-> {},
   waiting |-> FALSE, snap |-> {},
   config_id |-> 0, property_id_val |-> 0, configuration_name |-> NULL, block_uuid |-> 0,
   blocks_json |-> <<>>, bi |-> 0, pi |-> 0, new_block_id |-> 0,
   plot_prefix |-> "", plot_number |-> "",
   preB |-> {}, preP |-> {}, preC |-> {}]

\* outcome of a call: what was called with which argument, whether it returned
\* or raised, the error, the returned value; text_arg and text are the text
\* argument and the returned text of the calls that have them; at is the
\* number of the call among the calls when it returns in the step in which
\* it begins, which tells two such calls with the same arguments apart;
\* payload is the JSON argument of the call that has one
Result(op, arg, status, err, value) ==
  [op |-> op, arg |-> arg, status |-> status, err |-> err, value |-> value,
   text_arg |-> "", text |-> "", at |-> 0, payload |-> << >>]

\* outcome of a call that takes a text argument and returns a text
TextResult(op, arg, text_arg, status, err, text) ==
  [op |-> op, arg |-> arg, status |-> status, err |-> err, value |-> 0,
   text_arg |-> text_arg, text |-> text, at |-> 0, payload |-> << >>]

\* the outcome r of a call that returns in the step in which it begins
Immediate(r) == [r EXCEPT !.at = calls + 1]

NoRet == Result("none", 0, "none", "", 0)

\* the argument of the call in progress in session s
CallArg(s) ==
  CASE tx[s].op = "apply" -> tx[s].config_id
    [] tx[s].op = "safeDelete" -> tx[s].block_uuid
    [] tx[s].op = "allocate" -> tx[s].block_uuid
    [] OTHER -> tx[s].property_id_val

InProgress(s) == tx[s].pc # "idle"

\* no statistics were read yet; row is the result row of the last read,
\* input_property_id its argument, during the position of each session at
\* the time of that read and at the number of that read among the calls
NoStats ==
  [row |-> [total_blocks |-> 0, total_plots |-> 0, available_plots |-> 0,
            booked_plots |-> 0, sold_plots |-> 0,
            reserved_plots |-> 0, total_area |-> 0,
            average_plot_size |-> [num |-> 0, den |-> 1],
            min_plot_size |-> 0, max_plot_size |-> 0],
   input_property_id |-> 0, during |-> [s \in {1, 2} |-> "idle"], at |-> 0]

----------------------------------------------------------------------------
(* Payloads of configurations written by the route handlers *)

PlotEntry(num, area, status) ==
  [id |-> NULL, plot_number |-> num, area |-> area, price |-> "15 lakhs",
   status |-> status, description |-> NULL]

BlockEntry(name, plots) ==
  [id |-> NULL, name |-> name, description |-> NULL, plots |-> plots]

\* the layout of the scenario of the specification
PayloadScenario ==
  << BlockEntry("A", << PlotEntry("P001", "1200", "available"),
                        PlotEntry("P002", "1500", "booked") >>) >>

\* a plot entry without a status key
PayloadNoStatus == << BlockEntry("B", << PlotEntry("P001", "1200", NULL) >>) >>

\* a plot entry whose area is zero
PayloadZeroArea ==
  << BlockEntry("A", << PlotEntry("P001", "1200", "sold"),
                        PlotEntry("P002", "0", "available") >>) >>

\* two block entries whose names differ only in case
PayloadDupName ==
  << BlockEntry("A", << PlotEntry("P001", "1200", "available") >>),
     BlockEntry("a", << >>) >>

\* two block entries, the second without plots
PayloadTwoBlocks ==
  << BlockEntry("A", << PlotEntry("p001", "1200", "blocked") >>),
     BlockEntry("B", << >>) >>

----------------------------------------------------------------------------
(* Initial state: the tables as the schema script and the route handlers    *)
(* leave them                                                               *)

SeedBlock1 == [id |-> 1, property_id |-> 1, name |-> "B", description |-> "old"]

SeedPlot1 ==
  [id |-> 2, block_id |-> 1, plot_number |-> "P001", area |-> 1500,
   price |-> "15 lakhs", status |-> "reserved", description |-> NULL]

SeedBlock2 == [id |-> 3, property_id |-> 2, name |-> "b", description |-> NULL]

SeedPlot2 ==
  [id |-> 4, block_id |-> 3, plot_number |-> "p002", area |-> 1200,
   price |-> "15 lakhs", status |-> "blocked", description |-> "corner"]

SeedConfig(payload) ==
  [id |-> SeedPlot2.id + 1, property_id |-> 1, configuration_name |-> "seed",
   blocks_data |-> payload, is_active |-> TRUE]

\* the first identifier uuid_generate_v4() hands out after the seed rows
FirstId == SeedPlot2.id + 2

\* columns of land_plot_status_history once the schema script has run: those
\* of its CREATE TABLE and old_status, which the script adds to the table
history_columns ==
  {"id", "plot_id", "previous_status", "new_status", "changed_by", "change_reason",
   "changed_at", "old_status"}

\* the history table as the schema script leaves it
HistoryReady == [exists |-> TRUE, columns |-> history_columns]

\* the script empties land_plot_status_history; no row of property_plots yet
NoAudit ==
  /\ land_plot_status_history = {}
  /\ history_table = HistoryReady
  /\ property_plots = {}

\* inventory rows and configuration rows the model starts from
SeedStates ==
  { <<{SeedBlock1, SeedBlock2}, {SeedPlot1, SeedPlot2}, {SeedConfig(PayloadScenario)}>>,
    <<{SeedBlock1}, {SeedPlot1}, {SeedConfig(PayloadZeroArea)}>>,
    <<{SeedBlock1}, {SeedPlot1}, {SeedConfig(PayloadDupName)}>>,
    <<{}, {}, {SeedConfig(PayloadNoStatus)}>>,
    <<{SeedBlock1, SeedBlock2}, {SeedPlot1, SeedPlot2}, {}>>,
    <<{SeedBlock1}, {SeedPlot1}, {SeedConfig(PayloadTwoBlocks)}>> }

Init ==
  /\ \E seed \in SeedStates :
       /\ land_blocks = seed[1]
       /\ land_plots = seed[2]
       /\ property_land_configurations = seed[3]
  /\ nextId = FirstId
  /\ calls = 0
  /\ tx = [s \in Sessions |-> Idle]
  /\ ret = [s \in Sessions |-> NoRet]
  /\ stats = NoStats
  /\ NoAudit

----------------------------------------------------------------------------
(* What a statement of session s sees and which rows are locked *)

\* rows of land_blocks visible to a statement of session s
VisibleBlocks(s) == {b \in land_blocks : b.id \notin tx[s].delB} \cup tx[s].insB

\* rows of land_plots visible to a statement of session s
VisiblePlots(s) == {p \in land_plots : p.id \notin tx[s].delP} \cup tx[s].insP

\* rows of property_land_configurations visible to a statement of session s
VisibleConfigs(s) ==
  {IF c.id \in tx[s].updC THEN [c EXCEPT !.is_active = FALSE] ELSE c :
     c \in property_land_configurations} \cup tx[s].insC

\* the sessions other than s that have a call in progress
Others(s) == {o \in Sessions \ {s} : InProgress(o)}

\* identifiers of rows deleted or updated, not yet committed, by other sessions
LockedBlocks(s) == UNION {tx[o].delB : o \in Others(s)}
LockedPlots(s) == UNION {tx[o].delP : o \in Others(s)}
LockedConfigs(s) == UNION {tx[o].updC : o \in Others(s)}

\* rows inserted, not yet committed, by other sessions
PendingBlocks(s) == UNION {tx[o].insB : o \in Others(s)}
PendingPlots(s) == UNION {tx[o].insP : o \in Others(s)}
PendingConfigs(s) == UNION {tx[o].insC : o \in Others(s)}

----------------------------------------------------------------------------
(* get_next_plot_number(input_block_id, plot_prefix) *)

\* the CASE of the query: the suffix of a plot number that matches, else 0
PlotSuffixNumber(plot_number, plot_prefix) ==
  IF MatchesPrefixDigits(plot_number, plot_prefix)
  THEN CastInteger(SubstringFrom(plot_number, Len(plot_prefix) + 1))
  ELSE 0

\* the plot numbers of the rows P the query reads
BlockPlotNumbers(P, input_block_id) ==
  {x.plot_number : x \in {y \in P : y.block_id = input_block_id}}

\* a cast of the CASE raises
SuffixCastFails(P, input_block_id, plot_prefix) ==
  \E n \in BlockPlotNumbers(P, input_block_id) :
    /\ MatchesPrefixDigits(n, plot_prefix)
    /\ CastIntegerFails(SubstringFrom(n, Len(plot_prefix) + 1))

\* COALESCE(MAX(CASE ...), 0)
MaxSuffixNumber(P, input_block_id, plot_prefix) ==
  LET nums == {PlotSuffixNumber(n, plot_prefix) : n \in BlockPlotNumbers(P, input_block_id)}
  IN IF nums = {} THEN 0 ELSE CHOOSE m \in nums : \A k \in nums : k <= m

\* the function raises: a suffix is out of range, or the maximum plus one is
get_next_plot_number_fails(P, input_block_id, plot_prefix) ==
  \/ SuffixCastFails(P, input_block_id, plot_prefix)
  \/ MaxSuffixNumber(P, input_block_id, plot_prefix) = MaxInteger

\* the value the function returns on the plot rows P
get_next_plot_number(P, input_block_id, plot_prefix) ==
  LET next_num == MaxSuffixNumber(P, input_block_id, plot_prefix) + 1
  IN plot_prefix \o LPAD(ToString(next_num), 3, "0")

----------------------------------------------------------------------------
(* Row constraints: the outcome of one INSERT is "ok", "error" (the        *)
(* statement raises) or "wait" (it blocks on an uncommitted row)           *)

Statuses == {"available", "booked", "sold", "reserved", "blocked"}

\* variant: no unique index on the block name
SameBlockKey_NoIndex(a, b) == FALSE

\* idx_land_blocks_unique_name_per_property: same property, same LOWER(name)
SameBlockKey(a, b) == a.property_id = b.property_id /\ Lower(a.name) = Lower(b.name)

\* INSERT INTO land_blocks
BlockInsertOutcome(s, row) ==
  IF row.name = NULL \/ row.property_id \notin Properties THEN "error"
  ELSE IF \/ \E b \in tx[s].insB : SameBlockKey(b, row)
          \/ \E b \in land_blocks :
                /\ SameBlockKey(b, row)
                /\ b.id \notin tx[s].delB
                /\ b.id \notin LockedBlocks(s)
       THEN "error"
  ELSE IF \/ \E b \in PendingBlocks(s) : SameBlockKey(b, row)
          \/ \E b \in land_blocks : SameBlockKey(b, row) /\ b.id \in LockedBlocks(s)
       THEN "wait"
  ELSE "ok"

\* variant: no unique index on the plot number
SamePlotKey_NoIndex(a, b) == FALSE

\* idx_land_plots_unique_plot_per_block: same block, same LOWER(plot_number)
SamePlotKey(a, b) == a.block_id = b.block_id /\ Lower(a.plot_number) = Lower(b.plot_number)

\* variant: land_plots has no constraint on the area
check_plot_area_positive_None(row) == TRUE

\* check_plot_area_positive
check_plot_area_positive(row) == row.area > 0

\* check_plot_status_valid; a CHECK whose value is NULL is satisfied
check_plot_status_valid(row) == row.status = NULL \/ row.status \in Statuses

\* INSERT INTO land_plots of a row whose area is a number
PlotInsertOutcome(s, row) ==
  IF \/ row.plot_number = NULL
     \/ row.price = NULL
     \/ ~ check_plot_area_positive(row)
     \/ ~ check_plot_status_valid(row)
     \/ ~ \E b \in VisibleBlocks(s) : b.id = row.block_id
  THEN "error"
  ELSE IF \/ \E p \in tx[s].insP : SamePlotKey(p, row)
          \/ \E p \in land_plots :
                /\ SamePlotKey(p, row)
                /\ p.id \notin tx[s].delP
                /\ p.id \notin LockedPlots(s)
       THEN "error"
  ELSE IF \/ row.block_id \in LockedBlocks(s)
          \/ \E p \in PendingPlots(s) : SamePlotKey(p, row)
          \/ \E p \in land_plots : SamePlotKey(p, row) /\ p.id \in LockedPlots(s)
       THEN "wait"
  ELSE "ok"

\* variant: no unique index on the active configuration of a property
ActiveConflict_NoIndex(c, row) == FALSE

\* idx_property_land_configurations_unique_active: one row per property
\* among the rows WHERE is_active = TRUE
ActiveConflict(c, row) == c.is_active /\ row.is_active /\ c.property_id = row.property_id

\* INSERT INTO property_land_configurations
ConfigInsertOutcome(s, row) ==
  IF row.configuration_name = NULL \/ row.property_id \notin Properties THEN "error"
  ELSE IF \/ \E c \in tx[s].insC : ActiveConflict(c, row)
          \/ \E c \in property_land_configurations :
                /\ ActiveConflict(c, row)
                /\ c.id \notin tx[s].updC
                /\ c.id \notin LockedConfigs(s)
       THEN "error"
  ELSE IF \/ \E c \in PendingConfigs(s) : ActiveConflict(c, row)
          \/ \E c \in property_land_configurations :
                ActiveConflict(c, row) /\ c.id \in LockedConfigs(s)
       THEN "wait"
  ELSE "ok"

----------------------------------------------------------------------------
(* End of a call *)

\* the tables after the write set of session s is committed
CommittedBlocks(s) == {b \in land_blocks : b.id \notin tx[s].delB} \cup tx[s].insB
CommittedPlots(s) == {p \in land_plots : p.id \notin tx[s].delP} \cup tx[s].insP
\* variant: the trigger is created AFTER INSERT OR UPDATE
TriggerFiresOnInsert_Also == TRUE

\* CREATE TRIGGER track_land_plot_status_changes AFTER UPDATE ON land_plots:
\* the INSERT of a plot does not fire it
TriggerFiresOnInsert == FALSE

\* the history rows written for the plots session s inserted: one per plot
\* with a status if the trigger fired on INSERT, with no old status
InsertTracked(s) ==
  IF TriggerFiresOnInsert
  THEN {[id |-> p.id, plot_id |-> p.id, previous_status |-> NULL, old_status |-> NULL,
         new_status |-> p.status, changed_by |-> NULL, change_reason |-> NULL] :
          p \in {x \in tx[s].insP : x.status # NULL}}
  ELSE {}

\* plot_id REFERENCES land_plots(id) ON DELETE CASCADE: the history rows of a
\* deleted plot go with it
CommittedHistory(s) ==
  {h \in land_plot_status_history : h.plot_id \notin tx[s].delP} \cup InsertTracked(s)

\* variant: the UPDATE that deactivates has no effect on the committed rows
CommittedConfigs_NoDeactivate(s) == property_land_configurations \cup tx[s].insC

\* variant: the UPDATE that deactivates also resets the payload to its default
CommittedConfigs_PayloadReset(s) ==
  {IF c.id \in tx[s].updC THEN [c EXCEPT !.is_active = FALSE, !.blocks_data = << >>] ELSE c :
     c \in property_land_configurations} \cup tx[s].insC

CommittedConfigs(s) ==
  {IF c.id \in tx[s].updC THEN [c EXCEPT !.is_active = FALSE] ELSE c :
     c \in property_land_configurations} \cup tx[s].insC

\* variant: the deletes and inserts made before the error stay in the tables
Rollback_KeepsInventory(s, err) ==
  /\ land_blocks' = CommittedBlocks(s)
  /\ land_plots' = CommittedPlots(s)
  /\ tx' = [tx EXCEPT ![s] = Idle]
  /\ ret' = [ret EXCEPT ![s] = Result(tx[s].op, CallArg(s), "error", err, 0)]
  /\ UNCHANGED <<audit, property_land_configurations, calls, stats>>

\* variant: the deactivation made before the error stays in the table
Rollback_KeepsDeactivation(s, err) ==
  /\ property_land_configurations' =
       {IF c.id \in tx[s].updC THEN [c EXCEPT !.is_active = FALSE] ELSE c :
          c \in property_land_configurations}
  /\ tx' = [tx EXCEPT ![s] = Idle]
  /\ ret' = [ret EXCEPT ![s] = Result(tx[s].op, CallArg(s), "error", err, 0)]
  /\ UNCHANGED <<audit, land_blocks, land_plots, calls, stats>>

\* the function raised, was cancelled or timed out: the statement that called
\* it is rolled back, none of its writes reaches the tables
Rollback(s, err) ==
  /\ tx' = [tx EXCEPT ![s] = Idle]
  /\ ret' = [ret EXCEPT ![s] = Result(tx[s].op, CallArg(s), "error", err, 0)]
  /\ UNCHANGED <<audit, land_blocks, land_plots, property_land_configurations, calls, stats>>

\* the function returned: the statement that called it commits
Commit(s, value) ==
  /\ land_blocks' = CommittedBlocks(s)
  /\ land_plots' = CommittedPlots(s)
  /\ property_land_configurations' = CommittedConfigs(s)
  /\ land_plot_status_history' = CommittedHistory(s)
  /\ tx' = [tx EXCEPT ![s] = Idle]
  /\ ret' = [ret EXCEPT ![s] = Result(tx[s].op, CallArg(s), "ok", "", value)]
  /\ UNCHANGED <<history_table, property_plots, calls, stats>>

\* a call that raises before it wrote anything
Raise(s, op, arg, err) ==
  /\ ret' = [ret EXCEPT ![s] = Immediate(Result(op, arg, "error", err, 0))]
  /\ calls' = calls + 1
  /\ UNCHANGED <<audit, land_blocks, land_plots, property_land_configurations, nextId, tx, stats>>

----------------------------------------------------------------------------
(* Individual INSERTs of the route handlers *)

BlockNames == {"A"}

\* plot number, area and status of the plots the route handlers create
PlotInputs == { <<"P002", 1200, "available">> }

\* INSERT INTO land_blocks (property_id, name, description)
CreateBlock(s, p, name) ==
  LET row == [id |-> nextId, property_id |-> p, name |-> name, description |-> NULL] IN
  /\ ~ InProgress(s)
  /\ calls < MaxCalls
  /\ BlockInsertOutcome(s, row) # "wait"
  /\ IF BlockInsertOutcome(s, row) = "ok"
     THEN /\ land_blocks' = land_blocks \cup {row}
          /\ nextId' = nextId + 1
          /\ ret' = [ret EXCEPT ![s] = Result("createBlock", p, "ok", "", row.id)]
          /\ calls' = calls + 1
          /\ UNCHANGED <<audit, land_plots, property_land_configurations, tx, stats>>
     ELSE Raise(s, "createBlock", p, "constraint")

\* INSERT INTO land_plots (block_id, plot_number, area, price, status)
CreatePlot(s, b, in) ==
  LET row == [id |-> nextId, block_id |-> b, plot_number |-> in[1], area |-> in[2],
              price |-> "15 lakhs", status |-> in[3], description |-> NULL] IN
  /\ ~ InProgress(s)
  /\ calls < MaxCalls
  /\ PlotInsertOutcome(s, row) # "wait"
  /\ IF PlotInsertOutcome(s, row) = "ok"
     THEN /\ land_plots' = land_plots \cup {row}
          /\ nextId' = nextId + 1
          /\ ret' = [ret EXCEPT ![s] = Result("createPlot", b, "ok", "", row.id)]
          /\ calls' = calls + 1
          /\ UNCHANGED <<audit, land_blocks, property_land_configurations, tx, stats>>
     ELSE Raise(s, "createPlot", b, "constraint")

----------------------------------------------------------------------------
(* create_property_land_configuration(p_property_id, p_configuration_name) *)

ConfigNames == {"cfg", NULL}

\* variant: the object built for a plot has no status key
PlotJson_NoStatus(lp) ==
  [id |-> ToString(lp.id), plot_number |-> lp.plot_number, area |-> NumericText(lp.area),
   price |-> lp.price, status |-> NULL, description |-> lp.description]

\* jsonb_build_object for one plot row
PlotJson(lp) ==
  [id |-> ToString(lp.id), plot_number |-> lp.plot_number, area |-> NumericText(lp.area),
   price |-> lp.price, status |-> lp.status, description |-> lp.description]

\* the values jsonb_build_object can take for one block row: its plots are
\* aggregated in any order, '[]' when the LEFT JOIN finds none
BlockJsons(s, lb) ==
  { [id |-> ToString(lb.id), name |-> lb.name, description |-> lb.description, plots |-> ps] :
      ps \in SeqsOf({PlotJson(lp) : lp \in {x \in VisiblePlots(s) : x.block_id = lb.id}}) }

\* variant: the WHERE clause on the property is missing
SnapshotBlocks_AllProperties(s, p) == VisibleBlocks(s)

\* FROM land_blocks lb ... WHERE lb.property_id = p_property_id
SnapshotBlocks(s, p) == {lb \in VisibleBlocks(s) : lb.property_id = p}

\* the values blocks_json can take: one object per block row found, in any order
BlocksJsonValues(s, p) ==
  LET B == SnapshotBlocks(s, p) IN
  UNION { { [i \in 1..Len(ob) |-> f[ob[i]]] :
              f \in {g \in [B -> UNION {BlockJsons(s, lb) : lb \in B}] :
                       \A lb \in B : g[lb] \in BlockJsons(s, lb)} } :
          ob \in SeqsOf(B) }

\* SELECT ... INTO blocks_json
create_property_land_configuration_select(s, p, name) ==
  /\ ~ InProgress(s)
  /\ calls < MaxCalls
  /\ \E bj \in BlocksJsonValues(s, p) :
       tx' = [tx EXCEPT ![s] =
                [Idle EXCEPT !.op = "createSnapshot", !.pc = "cs_update",
                             !.property_id_val = p, !.configuration_name = name,
                             !.blocks_json = bj,
                             !.preB = land_blocks, !.preP = land_plots,
                             !.preC = property_land_configurations]]
  /\ calls' = calls + 1
  /\ UNCHANGED <<audit, land_blocks, land_plots, property_land_configurations, nextId, ret, stats>>

\* the rows UPDATE ... WHERE property_id = p_property_id AND is_active = TRUE finds
ActiveConfigIds(s) ==
  {c.id : c \in {x \in VisibleConfigs(s) :
                   x.property_id = tx[s].property_id_val /\ x.is_active}}

\* the rows the UPDATE changes: when it had to wait for a lock, those of its
\* snapshot that are still active when it reaches them
UpdateTargets(s) ==
  IF tx[s].waiting THEN tx[s].snap \cap ActiveConfigIds(s) ELSE ActiveConfigIds(s)

\* UPDATE property_land_configurations SET is_active = FALSE
create_property_land_configuration_update(s) ==
  /\ tx[s].pc = "cs_update"
  /\ UpdateTargets(s) \cap LockedConfigs(s) = {}
  /\ tx' = [tx EXCEPT ![s].pc = "cs_insert", ![s].waiting = FALSE, ![s].snap = {},
                      ![s].updC = @ \cup UpdateTargets(s)]
  /\ UNCHANGED <<audit, land_blocks, land_plots, property_land_configurations, nextId, calls, ret, stats>>

\* variant: the new configuration is inserted inactive
SnapshotRow_Inactive(id, p_property_id, p_configuration_name, blocks_json) ==
  [id |-> id, property_id |-> p_property_id, configuration_name |-> p_configuration_name,
   blocks_data |-> blocks_json, is_active |-> FALSE]

\* VALUES (p_property_id, p_configuration_name, blocks_json, TRUE)
SnapshotRow(id, p_property_id, p_configuration_name, blocks_json) ==
  [id |-> id, property_id |-> p_property_id, configuration_name |-> p_configuration_name,
   blocks_data |-> blocks_json, is_active |-> TRUE]

\* INSERT INTO property_land_configurations ... RETURNING id
create_property_land_configuration_insert(s) ==
  LET row == SnapshotRow(nextId, tx[s].property_id_val, tx[s].configuration_name,
                         tx[s].blocks_json) IN
  /\ tx[s].pc = "cs_insert"
  /\ ConfigInsertOutcome(s, row) # "wait"
  /\ IF ConfigInsertOutcome(s, row) = "ok"
     THEN /\ tx' = [tx EXCEPT ![s].pc = "cs_return", ![s].insC = @ \cup {row},
                              ![s].config_id = row.id]
          /\ nextId' = nextId + 1
          /\ UNCHANGED <<audit, land_blocks, land_plots, property_land_configurations, calls, ret, stats>>
     ELSE Rollback(s, "constraint") /\ UNCHANGED nextId

\* RETURN configuration_id
create_property_land_configuration_return(s) ==
  /\ tx[s].pc = "cs_return"
  /\ Commit(s, tx[s].config_id)
  /\ UNCHANGED nextId

----------------------------------------------------------------------------
(* apply_property_land_configuration(p_configuration_id) *)

\* pc after the block entry before index bi is done
AfterBlock(bj, bi) == IF bi > Len(bj) THEN "ap_return" ELSE "ap_insert_block"

\* variant: the SELECT does not test is_active
ApplyFound_AnyState(s, cid) == \E c \in VisibleConfigs(s) : c.id = cid

\* FOUND after SELECT ... WHERE id = p_configuration_id AND is_active = TRUE
ApplyFound(s, cid) == \E c \in VisibleConfigs(s) : c.id = cid /\ c.is_active

\* VALUES (property_id_val, block_data->>'name', block_data->>'description')
ApplyBlockRow(id, property_id_val, block_data) ==
  [id |-> id, property_id |-> property_id_val,
   name |-> block_data.name, description |-> block_data.description]

\* variant: an absent status becomes 'available', as in the bulk insert
ApplyPlotRow_DefaultStatus(id, new_block_id, plot_data) ==
  [id |-> id, block_id |-> new_block_id,
   plot_number |-> plot_data.plot_number,
   area |-> CastNumeric(plot_data.area),
   price |-> plot_data.price,
   status |-> IF plot_data.status = NULL THEN "available" ELSE plot_data.status,
   description |-> plot_data.description]

\* VALUES (new_block_id, plot_data->>'plot_number', (plot_data->>'area')::NUMERIC,
\*         plot_data->>'price', plot_data->>'status', plot_data->>'description')
ApplyPlotRow(id, new_block_id, plot_data) ==
  [id |-> id, block_id |-> new_block_id,
   plot_number |-> plot_data.plot_number,
   area |-> CastNumeric(plot_data.area),
   price |-> plot_data.price, status |-> plot_data.status,
   description |-> plot_data.description]

\* SELECT * INTO config_record ... ; IF NOT FOUND THEN RAISE EXCEPTION
apply_property_land_configuration_select(s, cid) ==
  /\ ~ InProgress(s)
  /\ calls < MaxCalls
  /\ IF ApplyFound(s, cid)
     THEN LET config_record == CHOOSE c \in VisibleConfigs(s) : c.id = cid IN
          /\ tx' = [tx EXCEPT ![s] =
                      [Idle EXCEPT !.op = "apply", !.pc = "ap_delete_plots",
                                   !.config_id = cid,
                                   !.property_id_val = config_record.property_id,
                                   !.blocks_json = config_record.blocks_data,
                                   !.preB = land_blocks, !.preP = land_plots,
                                   !.preC = property_land_configurations]]
          /\ calls' = calls + 1
          /\ UNCHANGED <<audit, land_blocks, land_plots, property_land_configurations, nextId, ret, stats>>
     ELSE Raise(s, "apply", cid, "Configuration not found or not active")

\* identifiers of the plots DELETE FROM land_plots WHERE block_id IN (...) finds
PlotsFound(s) ==
  {p.id : p \in {x \in VisiblePlots(s) :
                   \E b \in VisibleBlocks(s) :
                      b.id = x.block_id /\ b.property_id = tx[s].property_id_val}}

\* variant: the function has no DELETE FROM land_plots before that of the blocks
PlotTargets_None(s) == {}

\* the plots the DELETE removes: when it had to wait for a lock, those of its
\* snapshot that still exist when it reaches them
PlotTargets(s) ==
  IF tx[s].waiting THEN tx[s].snap \cap {p.id : p \in VisiblePlots(s)} ELSE PlotsFound(s)

\* DELETE FROM land_plots WHERE block_id IN (SELECT id FROM land_blocks ...)
apply_property_land_configuration_delete_plots(s) ==
  /\ tx[s].pc = "ap_delete_plots"
  /\ PlotTargets(s) \cap LockedPlots(s) = {}
  /\ tx' = [tx EXCEPT ![s].pc = "ap_delete_blocks", ![s].waiting = FALSE, ![s].snap = {},
                      ![s].delP = @ \cup {p.id : p \in {x \in land_plots : x.id \in PlotTargets(s)}},
                      ![s].insP = {p \in @ : p.id \notin PlotTargets(s)}]
  /\ UNCHANGED <<audit, land_blocks, land_plots, property_land_configurations, nextId, calls, ret, stats>>

\* variant: the DELETE FROM land_blocks has no WHERE clause
BlocksFound_AllProperties(s) == {b.id : b \in VisibleBlocks(s)}

\* identifiers of the blocks DELETE FROM land_blocks WHERE property_id = ... finds
BlocksFound(s) ==
  {b.id : b \in {x \in VisibleBlocks(s) : x.property_id = tx[s].property_id_val}}

\* the blocks the DELETE removes
BlockTargets(s) ==
  IF tx[s].waiting THEN tx[s].snap \cap {b.id : b \in VisibleBlocks(s)} ELSE BlocksFound(s)

\* the plots ON DELETE CASCADE removes with the blocks
CascadePlots(s) == {p.id : p \in {x \in VisiblePlots(s) : x.block_id \in BlockTargets(s)}}

\* the DELETE of the blocks has to wait: a block or a plot of the cascade is
\* locked by another session, or another session inserted a plot into a block
BlockDeleteLocked(s) ==
  \/ BlockTargets(s) \cap LockedBlocks(s) # {}
  \/ CascadePlots(s) \cap LockedPlots(s) # {}
  \/ \E p \in PendingPlots(s) : p.block_id \in BlockTargets(s)

\* DELETE FROM land_blocks WHERE property_id = property_id_val
apply_property_land_configuration_delete_blocks(s) ==
  /\ tx[s].pc = "ap_delete_blocks"
  /\ ~ BlockDeleteLocked(s)
  /\ tx' = [tx EXCEPT ![s].pc = AfterBlock(tx[s].blocks_json, 1), ![s].bi = 1,
                      ![s].waiting = FALSE, ![s].snap = {},
                      ![s].delB = @ \cup {b.id : b \in {x \in land_blocks : x.id \in BlockTargets(s)}},
                      ![s].insB = {b \in @ : b.id \notin BlockTargets(s)},
                      ![s].delP = @ \cup {p.id : p \in {x \in land_plots : x.id \in CascadePlots(s)}},
                      ![s].insP = {p \in @ : p.id \notin CascadePlots(s)}]
  /\ UNCHANGED <<audit, land_blocks, land_plots, property_land_configurations, nextId, calls, ret, stats>>

\* INSERT INTO land_blocks (property_id, name, description) ... RETURNING id
apply_property_land_configuration_insert_block(s) ==
  LET block_data == tx[s].blocks_json[tx[s].bi]
      row == ApplyBlockRow(nextId, tx[s].property_id_val, block_data)
  IN
  /\ tx[s].pc = "ap_insert_block"
  /\ BlockInsertOutcome(s, row) # "wait"
  /\ IF BlockInsertOutcome(s, row) = "ok"
     THEN /\ tx' = [tx EXCEPT
                      ![s].insB = @ \cup {row},
                      ![s].new_block_id = row.id,
                      ![s].pi = 1,
                      ![s].bi = IF Len(block_data.plots) = 0 THEN @ + 1 ELSE @,
                      ![s].pc = IF Len(block_data.plots) = 0
                                THEN AfterBlock(tx[s].blocks_json, tx[s].bi + 1)
                                ELSE "ap_insert_plot"]
          /\ nextId' = nextId + 1
          /\ UNCHANGED <<audit, land_blocks, land_plots, property_land_configurations, calls, ret, stats>>
     ELSE Rollback(s, "constraint") /\ UNCHANGED nextId

\* INSERT INTO land_plots (block_id, plot_number, area, price, status, description)
apply_property_land_configuration_insert_plot(s) ==
  LET block_data == tx[s].blocks_json[tx[s].bi]
      plot_data == block_data.plots[tx[s].pi]
      castable == plot_data.area # NULL /\ IsNumericText(plot_data.area)
      row == ApplyPlotRow(nextId, tx[s].new_block_id, plot_data)
      last == tx[s].pi = Len(block_data.plots)
  IN
  /\ tx[s].pc = "ap_insert_plot"
  /\ castable => PlotInsertOutcome(s, row) # "wait"
  /\ IF castable /\ PlotInsertOutcome(s, row) = "ok"
     THEN /\ tx' = [tx EXCEPT
                      ![s].insP = @ \cup {row},
                      ![s].pi = IF last THEN 1 ELSE @ + 1,
                      ![s].bi = IF last THEN @ + 1 ELSE @,
                      ![s].pc = IF last THEN AfterBlock(tx[s].blocks_json, tx[s].bi + 1)
                                ELSE "ap_insert_plot"]
          /\ nextId' = nextId + 1
          /\ UNCHANGED <<audit, land_blocks, land_plots, property_land_configurations, calls, ret, stats>>
     ELSE Rollback(s, "constraint") /\ UNCHANGED nextId

\* RETURN TRUE
apply_property_land_configuration_return(s) ==
  /\ tx[s].pc = "ap_return"
  /\ Commit(s, 1)
  /\ UNCHANGED nextId

----------------------------------------------------------------------------
(* duplicate_property_land_configuration(p_source_config_id, p_new_name) *)

\* variant: the copy is inserted as the active configuration
DuplicateRow_Active(id, source_config, name) ==
  [id |-> id, property_id |-> source_config.property_id, configuration_name |-> name,
   blocks_data |-> source_config.blocks_data, is_active |-> TRUE]

\* VALUES (source_config.property_id, p_new_name, source_config.blocks_data, FALSE)
DuplicateRow(id, source_config, name) ==
  [id |-> id, property_id |-> source_config.property_id, configuration_name |-> name,
   blocks_data |-> source_config.blocks_data, is_active |-> FALSE]

duplicate_property_land_configuration(s, src, name) ==
  /\ ~ InProgress(s)
  /\ calls < MaxCalls
  /\ IF \E c \in VisibleConfigs(s) : c.id = src
     THEN LET source_config == CHOOSE c \in VisibleConfigs(s) : c.id = src
              row == DuplicateRow(nextId, source_config, name)
          IN IF ConfigInsertOutcome(s, row) = "ok"
             THEN /\ property_land_configurations' = property_land_configurations \cup {row}
                  /\ nextId' = nextId + 1
                  /\ ret' = [ret EXCEPT ![s] = Result("duplicate", src, "ok", "", row.id)]
                  /\ calls' = calls + 1
                  /\ UNCHANGED <<audit, land_blocks, land_plots, tx, stats>>
             ELSE Raise(s, "duplicate", src, "constraint")
     ELSE Raise(s, "duplicate", src, "Source configuration not found")

----------------------------------------------------------------------------
(* Cancellation and timeout *)

\* the statement running the function is cancelled or times out
Cancel(s) ==
  /\ InProgress(s)
  /\ Rollback(s, "cancelled")
  /\ UNCHANGED nextId

----------------------------------------------------------------------------
(* Sequential specification: one session, one call at a time *)

\* identifiers a caller may pass: those handed out so far and one never used
IdArgs == 0..(nextId - 1)

Next ==
  \/ \E p \in Properties, name \in BlockNames : CreateBlock(1, p, name)
  \/ \E b \in {x.id : x \in land_blocks}, in \in PlotInputs : CreatePlot(1, b, in)
  \/ \E p \in Properties, name \in ConfigNames :
        create_property_land_configuration_select(1, p, name)
  \/ create_property_land_configuration_update(1)
  \/ create_property_land_configuration_insert(1)
  \/ create_property_land_configuration_return(1)
  \/ \E cid \in IdArgs : apply_property_land_configuration_select(1, cid)
  \/ apply_property_land_configuration_delete_plots(1)
  \/ apply_property_land_configuration_delete_blocks(1)
  \/ apply_property_land_configuration_insert_block(1)
  \/ apply_property_land_configuration_insert_plot(1)
  \/ apply_property_land_configuration_return(1)
  \/ \E src \in IdArgs, name \in ConfigNames : duplicate_property_land_configuration(1, src, name)
  \/ Cancel(1)

Spec == Init /\ [][Next]_vars

----------------------------------------------------------------------------
(* delete_land_block_safely(block_uuid) *)

\* variant: the check for the block is always satisfied
SafeBlockExists_Always(s, block_uuid) == TRUE

\* EXISTS(SELECT 1 FROM land_blocks WHERE id = block_uuid)
SafeBlockExists(s, block_uuid) == \E b \in VisibleBlocks(s) : b.id = block_uuid

\* IF NOT EXISTS(...) THEN RETURN FALSE; the SELECT COUNT(*) INTO plots_count
\* that follows reads and changes nothing
delete_land_block_safely_select(s, block_uuid) ==
  /\ ~ InProgress(s)
  /\ calls < MaxCalls
  /\ calls' = calls + 1
  /\ IF SafeBlockExists(s, block_uuid)
     THEN /\ tx' = [tx EXCEPT ![s] =
                      [Idle EXCEPT !.op = "safeDelete", !.pc = "sd_delete_plots",
                                   !.block_uuid = block_uuid,
                                   !.preB = land_blocks, !.preP = land_plots,
                                   !.preC = property_land_configurations]]
          /\ UNCHANGED ret
     ELSE /\ ret' = [ret EXCEPT ![s] =
                       Immediate(Result("safeDelete", block_uuid, "ok", "", 0))]
          /\ UNCHANGED tx
  /\ UNCHANGED <<audit, land_blocks, land_plots, property_land_configurations, nextId, stats>>

\* variant: the function does not delete the plots itself
SafePlotsFound_None(s) == {}

\* identifiers of the plots DELETE FROM land_plots WHERE block_id = block_uuid finds
SafePlotsFound(s) == {p.id : p \in {x \in VisiblePlots(s) : x.block_id = tx[s].block_uuid}}

SafePlotTargets(s) ==
  IF tx[s].waiting THEN tx[s].snap \cap {p.id : p \in VisiblePlots(s)} ELSE SafePlotsFound(s)

\* DELETE FROM land_plots WHERE block_id = block_uuid
delete_land_block_safely_delete_plots(s) ==
  /\ tx[s].pc = "sd_delete_plots"
  /\ SafePlotTargets(s) \cap LockedPlots(s) = {}
  /\ tx' = [tx EXCEPT ![s].pc = "sd_delete_block", ![s].waiting = FALSE, ![s].snap = {},
                      ![s].delP = @ \cup SafePlotTargets(s)]
  /\ UNCHANGED <<audit, land_blocks, land_plots, property_land_configurations, nextId, calls, ret, stats>>

\* identifiers of the blocks DELETE FROM land_blocks WHERE id = block_uuid finds
SafeBlocksFound(s) == {b.id : b \in {x \in VisibleBlocks(s) : x.id = tx[s].block_uuid}}

SafeBlockTargets(s) ==
  IF tx[s].waiting THEN tx[s].snap \cap {b.id : b \in VisibleBlocks(s)} ELSE SafeBlocksFound(s)

\* the plots ON DELETE CASCADE removes with the block
SafeCascadePlots(s) ==
  {p.id : p \in {x \in VisiblePlots(s) : x.block_id \in SafeBlockTargets(s)}}

\* the DELETE of the block has to wait
SafeBlockDeleteLocked(s) ==
  \/ SafeBlockTargets(s) \cap LockedBlocks(s) # {}
  \/ SafeCascadePlots(s) \cap LockedPlots(s) # {}
  \/ \E p \in PendingPlots(s) : p.block_id \in SafeBlockTargets(s)

\* DELETE FROM land_blocks WHERE id = block_uuid
delete_land_block_safely_delete_block(s) ==
  /\ tx[s].pc = "sd_delete_block"
  /\ ~ SafeBlockDeleteLocked(s)
  /\ tx' = [tx EXCEPT ![s].pc = "sd_return", ![s].waiting = FALSE, ![s].snap = {},
                      ![s].delB = @ \cup SafeBlockTargets(s),
                      ![s].delP = @ \cup SafeCascadePlots(s)]
  /\ UNCHANGED <<audit, land_blocks, land_plots, property_land_configurations, nextId, calls, ret, stats>>

\* RETURN TRUE
delete_land_block_safely_return(s) ==
  /\ tx[s].pc = "sd_return"
  /\ Commit(s, 1)
  /\ UNCHANGED nextId

----------------------------------------------------------------------------
(* bulk_insert_blocks_and_plots(input_property_id, input_blocks_data) *)

\* the columns of land_blocks
land_blocks_columns == {"id", "property_id", "name", "description", "created_at", "updated_at"}

\* the columns the INSERT INTO land_blocks of the function names
bulk_insert_columns == {"property_id", "name", "description", "total_plots"}

\* variant: the INSERT INTO land_blocks of the loop is never rejected
BulkBlockOutcome_Unchecked(B, row) == "ok"

\* INSERT INTO land_blocks (property_id, name, description, total_plots) next
\* to the blocks B: "ok" or the error it raises; the column names are
\* resolved before any row is looked at
BulkBlockOutcome(B, row) ==
  IF ~ (bulk_insert_columns \subseteq land_blocks_columns) THEN "undefined_column"
  ELSE IF \/ row.name = NULL
          \/ row.property_id \notin Properties
          \/ \E x \in B : SameBlockKey(x, row)
       THEN "constraint"
  ELSE "ok"

\* VALUES (new_block_id, plot_item->>'plot_number', (plot_item->>'area')::NUMERIC,
\*         plot_item->>'price', COALESCE(plot_item->>'status', 'available'),
\*         plot_item->>'description')
BulkPlotRow(id, new_block_id, plot_item) ==
  [id |-> id, block_id |-> new_block_id,
   plot_number |-> plot_item.plot_number,
   area |-> CastNumeric(plot_item.area),
   price |-> plot_item.price,
   status |-> IF plot_item.status = NULL THEN "available" ELSE plot_item.status,
   description |-> plot_item.description]

\* INSERT INTO land_plots of the loop next to the plots P
BulkPlotOutcome(P, id, new_block_id, plot_item) ==
  IF plot_item.area = NULL \/ ~ IsNumericText(plot_item.area) THEN "constraint"
  ELSE LET row == BulkPlotRow(id, new_block_id, plot_item) IN
       IF \/ row.plot_number = NULL
          \/ row.price = NULL
          \/ ~ check_plot_area_positive(row)
          \/ ~ check_plot_status_valid(row)
          \/ \E x \in P : SamePlotKey(x, row)
       THEN "constraint"
       ELSE "ok"

RECURSIVE BulkPlots(_, _, _, _)
\* FOR plot_item IN ... LOOP from the k-th plot entry on; run holds the blocks
\* B and the plots P the statements see, the next identifier and the error
\* raised so far
BulkPlots(run, new_block_id, plots, k) ==
  IF run.err # "" \/ k > Len(plots) THEN run
  ELSE LET out == BulkPlotOutcome(run.P, run.id, new_block_id, plots[k]) IN
       IF out = "ok"
       THEN BulkPlots([run EXCEPT !.P = @ \cup {BulkPlotRow(run.id, new_block_id, plots[k])},
                                  !.id = @ + 1],
                      new_block_id, plots, k + 1)
       ELSE [run EXCEPT !.err = out]

RECURSIVE BulkBlocks(_, _, _, _)
\* FOR block_item IN ... LOOP from the k-th block entry on
BulkBlocks(run, input_property_id, input_blocks_data, k) ==
  IF run.err # "" \/ k > Len(input_blocks_data) THEN run
  ELSE LET block_item == input_blocks_data[k]
           row == [id |-> run.id, property_id |-> input_property_id,
                   name |-> block_item.name, description |-> block_item.description]
           out == BulkBlockOutcome(run.B, row)
       IN IF out = "ok"
          THEN BulkBlocks(BulkPlots([run EXCEPT !.B = @ \cup {row}, !.id = @ + 1],
                                    row.id, block_item.plots, 1),
                          input_property_id, input_blocks_data, k + 1)
          ELSE [run EXCEPT !.err = out]

\* the function; an error of an INSERT ends the call and discards the rows
\* inserted before it; the returned array holds the created rows, of which
\* the model keeps the number
bulk_insert_blocks_and_plots(s, input_property_id, input_blocks_data) ==
  LET run == BulkBlocks([B |-> land_blocks, P |-> land_plots, id |-> nextId, err |-> ""],
                        input_property_id, input_blocks_data, 1)
  IN
  /\ ~ InProgress(s)
  /\ calls < MaxCalls
  /\ calls' = calls + 1
  /\ IF run.err # ""
     THEN /\ ret' = [ret EXCEPT ![s] =
                       Immediate([Result("bulkInsert", input_property_id, "error",
                                         run.err, 0)
                                    EXCEPT !.payload = input_blocks_data])]
          /\ UNCHANGED <<land_blocks, land_plots, nextId>>
     ELSE /\ land_blocks' = run.B
          /\ land_plots' = run.P
          /\ nextId' = run.id
          /\ ret' = [ret EXCEPT ![s] =
                       Immediate([Result("bulkInsert", input_property_id, "ok", "",
                                         run.id - nextId)
                                    EXCEPT !.payload = input_blocks_data])]
  /\ UNCHANGED <<audit, property_land_configurations, tx, stats>>

----------------------------------------------------------------------------
(* get_property_land_statistics(input_property_id) *)

\* variant: a reader sees the uncommitted deletes and inserts of the sessions
ReaderBlocks_Dirty ==
  {b \in land_blocks : \A o \in Sessions : b.id \notin tx[o].delB}
    \cup UNION {tx[o].insB : o \in Sessions}

\* the rows a SELECT of a reader sees: the committed ones
ReaderBlocks == land_blocks
ReaderPlots == land_plots
ReaderConfigs == property_land_configurations

\* variant: an inner join, which drops the blocks that have no plot
StatsJoin_Inner(B, P, input_property_id) ==
  {[block |-> b, matched |-> TRUE, plot |-> x] :
     <<b, x>> \in {bx \in B \X P : /\ bx[1].property_id = input_property_id
                                    /\ bx[1].id = bx[2].block_id}}

\* FROM land_blocks blocks LEFT JOIN land_plots plots ON blocks.id =
\* plots.block_id WHERE blocks.property_id = input_property_id: one row per
\* block and plot of it, and one row with the plot columns NULL (matched is
\* FALSE) per block without plots
StatsJoin(B, P, input_property_id) ==
  {[block |-> b, matched |-> TRUE, plot |-> x] :
     <<b, x>> \in {bx \in B \X P : /\ bx[1].property_id = input_property_id
                                    /\ bx[1].id = bx[2].block_id}}
  \cup
  {[block |-> b, matched |-> FALSE, plot |-> NULL] :
     b \in {y \in B : /\ y.property_id = input_property_id
                      /\ ~ \E x \in P : x.block_id = y.id}}

\* COUNT(DISTINCT blocks.id)
CountDistinctBlocks(rows) == Cardinality({r.block.id : r \in rows})

\* variant: COUNT(*), which counts the rows of the blocks without plots too
CountPlotIds_Star(rows) == Cardinality(rows)

\* COUNT(plots.id): the rows whose plots.id is not NULL
CountPlotIds(rows) == Cardinality({r \in rows : r.matched})

\* COUNT(CASE WHEN plots.status = st THEN 1 END)
CountStatus(rows, st) ==
  Cardinality({r \in rows : r.matched /\ r.plot.status # NULL /\ r.plot.status = st})

RECURSIVE SumRows(_)
\* the sum of plots.area over rows that all have a plot
SumRows(rows) ==
  IF rows = {} THEN 0
  ELSE LET r == CHOOSE y \in rows : TRUE IN r.plot.area + SumRows(rows \ {r})

\* SUM(plots.area): NULL when no row has a plot
SumPlotArea(rows) ==
  LET m == {r \in rows : r.matched}
  IN IF m = {} THEN [isnull |-> TRUE, val |-> 0] ELSE [isnull |-> FALSE, val |-> SumRows(m)]

\* AVG(plots.area) as the fraction num / den: NULL when no row has a plot
AvgPlotArea(rows) ==
  LET m == {r \in rows : r.matched}
  IN IF m = {} THEN [isnull |-> TRUE, val |-> [num |-> 0, den |-> 1]]
     ELSE [isnull |-> FALSE, val |-> [num |-> SumRows(m), den |-> Cardinality(m)]]

\* MIN(plots.area)
MinPlotArea(rows) ==
  LET m == {r \in rows : r.matched}
  IN IF m = {} THEN [isnull |-> TRUE, val |-> 0]
     ELSE [isnull |-> FALSE,
           val |-> (CHOOSE r \in m : \A y \in m : r.plot.area <= y.plot.area).plot.area]

\* MAX(plots.area)
MaxPlotArea(rows) ==
  LET m == {r \in rows : r.matched}
  IN IF m = {} THEN [isnull |-> TRUE, val |-> 0]
     ELSE [isnull |-> FALSE,
           val |-> (CHOOSE r \in m : \A y \in m : r.plot.area >= y.plot.area).plot.area]

\* COALESCE(a, d)
Coalesce(a, d) == IF a.isnull THEN d ELSE a.val

\* the one result row of the function, computed on the block rows B and the
\* plot rows P
get_property_land_statistics(B, P, input_property_id) ==
  LET rows == StatsJoin(B, P, input_property_id)
  IN [total_blocks |-> CountDistinctBlocks(rows),
      total_plots |-> CountPlotIds(rows),
      available_plots |-> CountStatus(rows, "available"),
      booked_plots |-> CountStatus(rows, "booked"),
      sold_plots |-> CountStatus(rows, "sold"),
      reserved_plots |-> CountStatus(rows, "reserved"),
      total_area |-> Coalesce(SumPlotArea(rows), 0),
      average_plot_size |-> Coalesce(AvgPlotArea(rows), [num |-> 0, den |-> 1]),
      min_plot_size |-> Coalesce(MinPlotArea(rows), 0),
      max_plot_size |-> Coalesce(MaxPlotArea(rows), 0)]

\* a reader calls the function
GetStatistics(input_property_id) ==
  /\ calls < MaxCalls
  /\ calls' = calls + 1
  /\ stats' = [row |-> get_property_land_statistics(ReaderBlocks, ReaderPlots,
                                                    input_property_id),
               input_property_id |-> input_property_id,
               during |-> [s \in Sessions |-> tx[s].pc], at |-> calls + 1]
  /\ UNCHANGED <<audit, land_blocks, land_plots, property_land_configurations, nextId, tx, ret>>

----------------------------------------------------------------------------
(* Concurrent specification: two sessions, their calls interleaved statement *)
(* by statement, and a reader of the statistics of property 1; both sessions *)
(* save and apply configurations, session 1 also deletes blocks and inserts  *)
(* in bulk                                                                   *)

\* the rows the UPDATE or DELETE at which session s stands finds
StatementFound(s) ==
  CASE tx[s].pc = "cs_update" -> ActiveConfigIds(s)
    [] tx[s].pc = "ap_delete_plots" -> PlotsFound(s)
    [] tx[s].pc = "ap_delete_blocks" -> BlocksFound(s)
    [] tx[s].pc = "sd_delete_plots" -> SafePlotsFound(s)
    [] tx[s].pc = "sd_delete_block" -> SafeBlocksFound(s)
    [] OTHER -> {}

\* one of those rows is locked by another session
StatementLocked(s) ==
  CASE tx[s].pc = "cs_update" -> ActiveConfigIds(s) \cap LockedConfigs(s) # {}
    [] tx[s].pc = "ap_delete_plots" -> PlotsFound(s) \cap LockedPlots(s) # {}
    [] tx[s].pc = "ap_delete_blocks" -> BlockDeleteLocked(s)
    [] tx[s].pc = "sd_delete_plots" -> SafePlotsFound(s) \cap LockedPlots(s) # {}
    [] tx[s].pc = "sd_delete_block" -> SafeBlockDeleteLocked(s)
    [] OTHER -> FALSE

\* the UPDATE or DELETE took its snapshot and waits for the lock; it goes on
\* with the rows of that snapshot when the other session has ended
statement_waits(s) ==
  /\ InProgress(s)
  /\ ~ tx[s].waiting
  /\ StatementLocked(s)
  /\ tx' = [tx EXCEPT ![s].waiting = TRUE, ![s].snap = StatementFound(s)]
  /\ UNCHANGED <<audit, land_blocks, land_plots, property_land_configurations, nextId, calls, ret, stats>>

ConcSeedStates ==
  { <<{SeedBlock1}, {SeedPlot1}, {SeedConfig(PayloadScenario)}>>,
    <<{}, {}, {SeedConfig(PayloadTwoBlocks)}>>,
    <<{SeedBlock1}, {}, {SeedConfig(PayloadScenario)}>>,
    <<{SeedBlock1, SeedBlock2}, {SeedPlot1, SeedPlot2}, {}>> }

InitConc ==
  /\ \E seed \in ConcSeedStates :
       /\ land_blocks = seed[1]
       /\ land_plots = seed[2]
       /\ property_land_configurations = seed[3]
  /\ nextId = FirstId
  /\ calls = 0
  /\ tx = [s \in Sessions |-> Idle]
  /\ ret = [s \in Sessions |-> NoRet]
  /\ stats = NoStats
  /\ NoAudit

\* the payloads the callers of the bulk insert pass
BulkPayloads == {<< >>, PayloadScenario}

\* the identifiers a caller passes: those of the committed rows, and one
\* that names no row
ConfigArgs == {c.id : c \in property_land_configurations} \cup {0}
BlockArgs == {b.id : b \in land_blocks} \cup {0}

NextConc ==
  \/ \E s \in Sessions : create_property_land_configuration_select(s, 1, "cfg")
  \/ \E s \in Sessions : create_property_land_configuration_update(s)
  \/ \E s \in Sessions : create_property_land_configuration_insert(s)
  \/ \E s \in Sessions : create_property_land_configuration_return(s)
  \/ \E s \in Sessions : \E cid \in ConfigArgs :
        apply_property_land_configuration_select(s, cid)
  \/ \E s \in Sessions : apply_property_land_configuration_delete_plots(s)
  \/ \E s \in Sessions : apply_property_land_configuration_delete_blocks(s)
  \/ \E s \in Sessions : apply_property_land_configuration_insert_block(s)
  \/ \E s \in Sessions : apply_property_land_configuration_insert_plot(s)
  \/ \E s \in Sessions : apply_property_land_configuration_return(s)
  \/ \E b \in BlockArgs : delete_land_block_safely_select(1, b)
  \/ \E s \in Sessions : delete_land_block_safely_delete_plots(s)
  \/ \E s \in Sessions : delete_land_block_safely_delete_block(s)
  \/ \E s \in Sessions : delete_land_block_safely_return(s)
  \/ \E d \in BulkPayloads : bulk_insert_blocks_and_plots(1, 1, d)
  \/ \E s \in Sessions : statement_waits(s)
  \/ \E s \in Sessions : Cancel(s)
  \/ GetStatistics(1)

SpecConc == InitConc /\ [][NextConc]_vars

----------------------------------------------------------------------------
(* Plot numbering: the callers of get_next_plot_number *)

\* the prefixes the callers pass; 'P' is the default of the function
PlotPrefixes == {"P", "Q"}

\* SELECT get_next_plot_number(input_block_id, plot_prefix)
NextPlotNumber(s, input_block_id, plot_prefix) ==
  /\ ~ InProgress(s)
  /\ calls < MaxCalls
  /\ calls' = calls + 1
  /\ ret' = [ret EXCEPT ![s] =
       IF get_next_plot_number_fails(VisiblePlots(s), input_block_id, plot_prefix)
       THEN Immediate(TextResult("nextPlotNumber", input_block_id, plot_prefix,
                                 "error", "out_of_range", ""))
       ELSE Immediate(TextResult("nextPlotNumber", input_block_id, plot_prefix, "ok", "",
                                 get_next_plot_number(VisiblePlots(s), input_block_id,
                                                      plot_prefix)))]
  /\ UNCHANGED <<audit, land_blocks, land_plots, property_land_configurations, nextId, tx, stats>>

\* the caller inserts a plot under the number its last call returned
InsertAllocated(s) ==
  /\ ret[s].op = "nextPlotNumber" /\ ret[s].status = "ok"
  /\ CreatePlot(s, ret[s].arg, <<ret[s].text, 1200, "available">>)

\* a plot row of the initial states
NumberedPlot(i, block_id, plot_number) ==
  [id |-> FirstId + i, block_id |-> block_id, plot_number |-> plot_number, area |-> 1500,
   price |-> "15 lakhs", status |-> "available", description |-> NULL]

\* the plot numbers the blocks hold initially, as <<block, number>>
NumberSeeds ==
  { << >>,
    << <<1, "P001">>, <<1, "P003">>, <<3, "P050">> >>,
    << <<1, "p001">> >>,
    << <<1, "Q010">>, <<1, "P01X">>, <<1, "P002">> >>,
    << <<1, "P9">> >>,
    << <<1, "P998">> >>,
    << <<1, "P999">>, <<1, "P100">> >>,
    << <<1, "P1000">> >>,
    << <<1, "P2147483647">> >>,
    << <<1, "P99999999999">> >> }

InitNum ==
  /\ land_blocks = {SeedBlock1, SeedBlock2}
  /\ \E seed \in NumberSeeds :
       land_plots = {NumberedPlot(i, seed[i][1], seed[i][2]) : i \in 1..Len(seed)}
  /\ property_land_configurations = {}
  /\ nextId = FirstId + 4
  /\ calls = 0
  /\ tx = [s \in Sessions |-> Idle]
  /\ ret = [s \in Sessions |-> NoRet]
  /\ stats = NoStats
  /\ NoAudit

NextNum ==
  \/ \E b \in {SeedBlock1.id, SeedBlock2.id}, prefix \in PlotPrefixes :
        NextPlotNumber(1, b, prefix)
  \/ InsertAllocated(1)
  \/ \E in \in PlotInputs : CreatePlot(1, SeedBlock1.id, in)

SpecNum == InitNum /\ [][NextNum]_vars

----------------------------------------------------------------------------
(* Concurrent plot numbering: each caller runs, in one transaction, the     *)
(* call of get_next_plot_number and the insert of a plot under the number   *)
(* it returned                                                              *)

\* BEGIN; SELECT get_next_plot_number(input_block_id, plot_prefix)
allocate_select(s, input_block_id, plot_prefix) ==
  /\ ~ InProgress(s)
  /\ calls < MaxCalls
  /\ IF get_next_plot_number_fails(VisiblePlots(s), input_block_id, plot_prefix)
     THEN Raise(s, "allocate", input_block_id, "out_of_range")
     ELSE /\ calls' = calls + 1
          /\ tx' = [tx EXCEPT ![s] =
                      [Idle EXCEPT !.op = "allocate", !.pc = "al_insert",
                                   !.block_uuid = input_block_id,
                                   !.plot_prefix = plot_prefix,
                                   !.plot_number =
                                      get_next_plot_number(VisiblePlots(s), input_block_id,
                                                           plot_prefix),
                                   !.preB = land_blocks, !.preP = land_plots,
                                   !.preC = property_land_configurations]]
          /\ UNCHANGED <<audit, land_blocks, land_plots, property_land_configurations, nextId,
                         ret, stats>>

\* INSERT INTO land_plots (block_id, plot_number, area, price, status)
allocate_insert(s) ==
  LET row == [id |-> nextId, block_id |-> tx[s].block_uuid,
              plot_number |-> tx[s].plot_number, area |-> 1200,
              price |-> "15 lakhs", status |-> "available", description |-> NULL] IN
  /\ tx[s].pc = "al_insert"
  /\ PlotInsertOutcome(s, row) # "wait"
  /\ IF PlotInsertOutcome(s, row) = "ok"
     THEN /\ tx' = [tx EXCEPT ![s].pc = "al_return", ![s].insP = @ \cup {row},
                              ![s].new_block_id = row.id]
          /\ nextId' = nextId + 1
          /\ UNCHANGED <<audit, land_blocks, land_plots, property_land_configurations, calls,
                         ret, stats>>
     ELSE Rollback(s, "constraint") /\ UNCHANGED nextId

\* COMMIT
allocate_return(s) ==
  /\ tx[s].pc = "al_return"
  /\ Commit(s, tx[s].new_block_id)
  /\ UNCHANGED nextId

NextAlloc ==
  \/ \E s \in Sessions, prefix \in PlotPrefixes : allocate_select(s, SeedBlock1.id, prefix)
  \/ \E s \in Sessions : allocate_insert(s)
  \/ \E s \in Sessions : allocate_return(s)
  \/ \E s \in Sessions : Cancel(s)

SpecAlloc == InitNum /\ [][NextAlloc]_vars

----------------------------------------------------------------------------
(* Inventory specification: one session creates blocks and plots and        *)
(* deletes blocks, and a reader reads the statistics of the properties      *)

\* the inventory of the statistics scenario: one block with P001 (available,
\* 1200) and P002 (booked, 1500)
ScenarioBlock == [id |-> 1, property_id |-> 1, name |-> "A", description |-> NULL]

ScenarioPlot1 ==
  [id |-> 2, block_id |-> 1, plot_number |-> "P001", area |-> 1200,
   price |-> "12 lakhs", status |-> "available", description |-> NULL]

ScenarioPlot2 ==
  [id |-> 4, block_id |-> 1, plot_number |-> "P002", area |-> 1500,
   price |-> "15 lakhs", status |-> "booked", description |-> NULL]

InventorySeeds ==
  { <<{}, {}>>,
    <<{SeedBlock1}, {}>>,
    <<{SeedBlock1, SeedBlock2}, {SeedPlot1, SeedPlot2}>>,
    <<{ScenarioBlock, SeedBlock2}, {ScenarioPlot1, ScenarioPlot2}>> }

InitInventory ==
  /\ \E seed \in InventorySeeds :
       /\ land_blocks = seed[1]
       /\ land_plots = seed[2]
  /\ property_land_configurations = {}
  /\ nextId = FirstId
  /\ calls = 0
  /\ tx = [s \in Sessions |-> Idle]
  /\ ret = [s \in Sessions |-> NoRet]
  /\ stats = NoStats
  /\ NoAudit

NextInventory ==
  \/ \E p \in Properties, name \in BlockNames : CreateBlock(1, p, name)
  \/ \E b \in {x.id : x \in land_blocks}, in \in PlotInputs : CreatePlot(1, b, in)
  \/ \E b \in BlockArgs : delete_land_block_safely_select(1, b)
  \/ delete_land_block_safely_delete_plots(1)
  \/ delete_land_block_safely_delete_block(1)
  \/ delete_land_block_safely_return(1)
  \/ Cancel(1)
  \/ \E p \in Properties : GetStatistics(p)

SpecInventory == InitInventory /\ [][NextInventory]_vars

----------------------------------------------------------------------------
(* track_plot_status_changes(): the function of the trigger                  *)
(* track_land_plot_status_changes, AFTER UPDATE ON land_plots FOR EACH ROW   *)

\* the columns the INSERT of the trigger function names
tracker_columns == {"plot_id", "old_status", "new_status", "changed_at"}

\* a IS DISTINCT FROM b: NULL is not distinct from NULL
IsDistinctFrom(a, b) == a # b

\* variant: the function does not test whether the status changed
TrackerInserts_EveryUpdate(OLD_row, NEW_row) == TRUE

\* IF OLD.status IS NOT NULL OR NEW.status IS NOT NULL THEN
\*   IF OLD.status IS DISTINCT FROM NEW.status THEN INSERT ...
TrackerInserts(OLD_row, NEW_row) ==
  /\ OLD_row.status # NULL \/ NEW_row.status # NULL
  /\ IsDistinctFrom(OLD_row.status, NEW_row.status)

\* the error INSERT INTO land_plot_status_history raises, "" when it raises
\* none: the table or a named column is missing, or new_status, NOT NULL, is
\* given NULL
TrackerInsertError(NEW_row) ==
  IF ~ history_table.exists THEN "undefined_table"
  ELSE IF ~ (tracker_columns \subseteq history_table.columns) THEN "undefined_column"
  ELSE IF NEW_row.status = NULL THEN "not_null_violation"
  ELSE ""

\* variant: the block has only the handler WHEN undefined_table
ExceptionHandled_OnlyUndefinedTable(err) == err = "undefined_table"

\* EXCEPTION WHEN undefined_table ... WHEN undefined_column ... WHEN OTHERS
ExceptionHandled(err) == err = "undefined_table" \/ err = "undefined_column" \/ TRUE

\* VALUES (NEW.id, OLD.status, NEW.status, NOW()); the other columns keep
\* their defaults
HistoryRow(id, OLD_row, NEW_row) ==
  [id |-> id, plot_id |-> NEW_row.id, previous_status |-> NULL,
   old_status |-> OLD_row.status, new_status |-> NEW_row.status,
   changed_by |-> NULL, change_reason |-> NULL]

\* the trigger function for the update of OLD into NEW: the error it raises,
\* "" when none, and the history rows it inserts
track_plot_status_changes(id, OLD_row, NEW_row) ==
  IF ~ TrackerInserts(OLD_row, NEW_row) THEN [err |-> "", rows |-> {}]
  ELSE IF TrackerInsertError(NEW_row) = "" THEN [err |-> "", rows |-> {HistoryRow(id, OLD_row, NEW_row)}]
  ELSE IF ExceptionHandled(TrackerInsertError(NEW_row)) THEN [err |-> "", rows |-> {}]
  ELSE [err |-> TrackerInsertError(NEW_row), rows |-> {}]

----------------------------------------------------------------------------
(* UPDATE land_plots SET status = new_status WHERE id = plot_id, the status  *)
(* update of the route handlers                                              *)

\* variant: land_plots has no constraint on the status
StatusUpdateAllowed_NoCheck(NEW_row) == TRUE

\* the CHECK constraints of land_plots hold for the updated row
StatusUpdateAllowed(NEW_row) == check_plot_area_positive(NEW_row) /\ check_plot_status_valid(NEW_row)

UpdatePlotStatus(s, plot_id, new_status) ==
  /\ ~ InProgress(s)
  /\ calls < MaxCalls
  /\ plot_id \notin LockedPlots(s)
  /\ IF \E x \in land_plots : x.id = plot_id
     THEN LET OLD_row == CHOOSE x \in land_plots : x.id = plot_id
              NEW_row == [OLD_row EXCEPT !.status = new_status]
              tracked == track_plot_status_changes(nextId, OLD_row, NEW_row)
          IN IF StatusUpdateAllowed(NEW_row) /\ tracked.err = ""
             THEN /\ land_plots' = (land_plots \ {OLD_row}) \cup {NEW_row}
                  /\ land_plot_status_history' = land_plot_status_history \cup tracked.rows
                  /\ nextId' = nextId + Cardinality(tracked.rows)
                  /\ ret' = [ret EXCEPT ![s] =
                               Immediate([TextResult("updateStatus", plot_id, new_status,
                                                     "ok", "", "") EXCEPT !.value = 1])]
                  /\ calls' = calls + 1
                  /\ UNCHANGED <<land_blocks, property_land_configurations, tx, stats,
                                 history_table, property_plots>>
             ELSE /\ ret' = [ret EXCEPT ![s] =
                               Immediate(TextResult("updateStatus", plot_id, new_status,
                                                    "error",
                                                    IF StatusUpdateAllowed(NEW_row)
                                                    THEN tracked.err ELSE "check_violation",
                                                    ""))]
                  /\ calls' = calls + 1
                  /\ UNCHANGED <<audit, land_blocks, land_plots,
                                 property_land_configurations, nextId, tx, stats>>
     ELSE /\ ret' = [ret EXCEPT ![s] =
                       Immediate(TextResult("updateStatus", plot_id, new_status,
                                            "ok", "", ""))]
          /\ calls' = calls + 1
          /\ UNCHANGED <<audit, land_blocks, land_plots, property_land_configurations,
                         nextId, tx, stats>>

----------------------------------------------------------------------------
(* update_plot_booking(p_plot_id, p_status, p_user_id) *)

\* SET status = p_status, booked_by = CASE ... END, booked_at = CASE ... END;
\* booked_at is the number of the call that set it, 0 when it is NULL
BookingUpdate(row, p_status, p_user_id, now) ==
  [row EXCEPT !.status = p_status,
              !.booked_by = IF p_status = "booked" THEN p_user_id
                            ELSE IF p_status = "sold" THEN p_user_id
                            ELSE NULL,
              !.booked_at = IF p_status = "booked" \/ p_status = "sold" THEN now ELSE 0]

\* the rows of UPDATE property_plots ... WHERE id = p_plot_id
BookingTargets(p_plot_id) == {r \in property_plots : r.id = p_plot_id}

\* the pairs of operand types for which PostgreSQL has an operator >;
\* no cast is implicit between boolean and integer
GreaterThanOperands ==
  {<<"integer", "integer">>, <<"numeric", "numeric">>, <<"boolean", "boolean">>,
   <<"text", "text">>}

\* RETURN v_success > 0, with v_success BOOLEAN and the literal 0
ReturnOperands == <<"boolean", "integer">>

\* the function: the UPDATE, GET DIAGNOSTICS v_success = ROW_COUNT, and the
\* RETURN, whose expression is resolved when the RETURN first runs
update_plot_booking(s, p_plot_id, p_status, p_user_id) ==
  /\ ~ InProgress(s)
  /\ calls < MaxCalls
  /\ calls' = calls + 1
  /\ IF ReturnOperands \in GreaterThanOperands
     THEN /\ property_plots' =
               {IF r \in BookingTargets(p_plot_id)
                THEN BookingUpdate(r, p_status, p_user_id, calls + 1) ELSE r :
                  r \in property_plots}
          /\ ret' = [ret EXCEPT ![s] =
                       Immediate([TextResult("updatePlotBooking", p_plot_id, p_status,
                                             "ok", "", "")
                                    EXCEPT !.value = Cardinality(BookingTargets(p_plot_id))])]
     ELSE /\ ret' = [ret EXCEPT ![s] =
                       Immediate(TextResult("updatePlotBooking", p_plot_id, p_status,
                                            "error", "undefined_function", ""))]
          /\ UNCHANGED property_plots
  /\ UNCHANGED <<land_blocks, land_plots, property_land_configurations, nextId, tx, stats,
                 land_plot_status_history, history_table>>

----------------------------------------------------------------------------
(* Status specification: one session updates the status of plots, with the   *)
(* history table as the schema script leaves it, without the column          *)
(* old_status, or dropped                                                    *)

\* the table as CREATE TABLE made it, before old_status was added
HistoryNoOldStatus == [exists |-> TRUE, columns |-> history_columns \ {"old_status"}]

\* the table dropped
HistoryDropped == [exists |-> FALSE, columns |-> {}]

HistoryTables == {HistoryReady, HistoryNoOldStatus, HistoryDropped}

StatusPlot(i, plot_number, status) ==
  [id |-> i, block_id |-> ScenarioBlock.id, plot_number |-> plot_number, area |-> 1200,
   price |-> "15 lakhs", status |-> status, description |-> NULL]

\* plots of one block in each status a plot can have
StatusSeeds ==
  { {StatusPlot(2, "P001", "available"), StatusPlot(3, "P002", "booked")},
    {StatusPlot(2, "P001", "sold"), StatusPlot(3, "P002", "reserved")},
    {StatusPlot(2, "P001", "blocked"), StatusPlot(3, "P002", NULL)} }

\* rows of property_plots: one never booked, one booked by user 8 at time 1
PropertyPlotSeeds ==
  { [id |-> 4, property_id |-> 1, plot_number |-> "U1", status |-> "available",
     booked_by |-> NULL, booked_at |-> 0],
    [id |-> 5, property_id |-> 1, plot_number |-> "U2", status |-> "booked",
     booked_by |-> "8", booked_at |-> 1] }

\* the users whose id a caller passes
Users == {"7"}

\* the status values a caller passes: the five of the constraint and one other
StatusInputs == Statuses \cup {"pending"}

InitStatus ==
  /\ land_blocks = {ScenarioBlock}
  /\ land_plots \in StatusSeeds
  /\ property_land_configurations = {}
  /\ nextId = FirstId
  /\ calls = 0
  /\ tx = [s \in Sessions |-> Idle]
  /\ ret = [s \in Sessions |-> NoRet]
  /\ stats = NoStats
  /\ land_plot_status_history = {}
  /\ history_table \in HistoryTables
  /\ property_plots = PropertyPlotSeeds

NextStatus ==
  \/ \E x \in {p.id : p \in land_plots} \cup {0}, t \in StatusInputs :
        UpdatePlotStatus(1, x, t)
  \/ \E x \in {p.id : p \in land_plots \cup property_plots} \cup {0},
        t \in {"sold", "booked", "available"}, u \in Users :
        update_plot_booking(1, x, t, u)

SpecStatus == InitStatus /\ [][NextStatus]_vars

----------------------------------------------------------------------------
(* Write specification: one session creates blocks and plots one by one,     *)
(* inserts in bulk, applies the active configuration and deletes blocks      *)

\* a plot entry whose area is negative
PayloadNegativeArea ==
  << BlockEntry("A", << PlotEntry("P001", "-50", "available") >>) >>

\* two plot entries of one block whose numbers differ only in case
PayloadDupPlot ==
  << BlockEntry("A", << PlotEntry("P001", "1200", "available"),
                        PlotEntry("p001", "1500", "sold") >>) >>

\* a block entry named as SeedBlock1 and SeedBlock2 are, but for the case
PayloadUsedName ==
  << BlockEntry("C", << PlotEntry("P001", "1200", "available") >>),
     BlockEntry(Lower(SeedBlock1.name), << >>) >>

\* the payloads of the active configuration of property 1
WriteConfigPayloads ==
  {PayloadScenario, PayloadZeroArea, PayloadNegativeArea, PayloadDupName, PayloadDupPlot}

\* the payloads a caller passes to the bulk insert
WriteBulkPayloads ==
  {<< >>, PayloadScenario, PayloadNoStatus, PayloadZeroArea, PayloadNegativeArea,
   PayloadDupName, PayloadDupPlot, PayloadUsedName}

\* the names of the blocks a caller creates
WriteBlockNames == {"A", "b"}

\* plot number, area and status of the plots a caller creates
WritePlotInputs ==
  { <<"p001", 1200, "available">>, <<"P002", 1500, "booked">>,
    <<"P003", 0, "sold">>, <<"P004", -50, "available">> }

InitWrites ==
  /\ land_blocks = {SeedBlock1, SeedBlock2}
  /\ land_plots = {SeedPlot1, SeedPlot2}
  /\ \E payload \in WriteConfigPayloads :
       property_land_configurations = {SeedConfig(payload)}
  /\ nextId = FirstId
  /\ calls = 0
  /\ tx = [s \in Sessions |-> Idle]
  /\ ret = [s \in Sessions |-> NoRet]
  /\ stats = NoStats
  /\ NoAudit

NextWrites ==
  \/ \E p \in Properties, name \in WriteBlockNames : CreateBlock(1, p, name)
  \/ \E b \in BlockArgs, in \in WritePlotInputs : CreatePlot(1, b, in)
  \/ \E p \in Properties, data \in WriteBulkPayloads : bulk_insert_blocks_and_plots(1, p, data)
  \/ \E cid \in ConfigArgs : apply_property_land_configuration_select(1, cid)
  \/ apply_property_land_configuration_delete_plots(1)
  \/ apply_property_land_configuration_delete_blocks(1)
  \/ apply_property_land_configuration_insert_block(1)
  \/ apply_property_land_configuration_insert_plot(1)
  \/ apply_property_land_configuration_return(1)
  \/ \E b \in BlockArgs : delete_land_block_safely_select(1, b)
  \/ delete_land_block_safely_delete_plots(1)
  \/ delete_land_block_safely_delete_block(1)
  \/ delete_land_block_safely_return(1)
  \/ Cancel(1)

SpecWrites == InitWrites /\ [][NextWrites]_vars

----------------------------------------------------------------------------
(* Claims about the sequential specification *)

\* the active configurations of property p among the rows C
ActiveOf(C, p) == {c \in C : c.property_id = p /\ c.is_active}

\* the blocks of property p among the rows B, and the plots of those blocks
BlocksOf(B, p) == {b \in B : b.property_id = p}
PlotsOf(B, P, p) == {x \in P : \E b \in BlocksOf(B, p) : b.id = x.block_id}

\* C1: after any sequence of createSnapshot, applyConfiguration and
\* duplicateConfiguration calls every property has at most one configuration
\* whose active flag is true
C1_AtMostOneActive ==
  \A p \in Properties : Cardinality(ActiveOf(property_land_configurations, p)) <= 1

\* a snapshot was saved for a property that already had an active configuration
C1_Witness ==
  /\ ret[1].op = "createSnapshot" /\ ret[1].status = "ok"
  /\ \E c \in property_land_configurations :
        c.property_id = ret[1].arg /\ ~ c.is_active
  /\ ActiveOf(property_land_configurations, ret[1].arg) # {}

\* the step in which the apply call of session 1 fails after its teardown began
ApplyFailsAfterTeardown ==
  /\ tx[1].op = "apply"
  /\ tx[1].pc \in {"ap_delete_blocks", "ap_insert_block", "ap_insert_plot", "ap_return"}
  /\ tx'[1].pc = "idle"
  /\ ret'[1].status = "error"

\* C2: when a step of applyConfiguration fails after the teardown has started
\* (an insert is rejected, the call is cancelled or times out) the blocks and
\* plots of the property are exactly those that existed before the call
C2_ApplyRollsBack ==
  [][ApplyFailsAfterTeardown =>
       /\ BlocksOf(land_blocks', tx[1].property_id_val)
            = BlocksOf(tx[1].preB, tx[1].property_id_val)
       /\ PlotsOf(land_blocks', land_plots', tx[1].property_id_val)
            = PlotsOf(tx[1].preB, tx[1].preP, tx[1].property_id_val)]_vars

\* an insert of an apply was rejected on a property that had blocks and plots
C2_Witness ==
  /\ ret[1].op = "apply" /\ ret[1].status = "error" /\ ret[1].err = "constraint"
  /\ \E c \in property_land_configurations :
        c.id = ret[1].arg /\ PlotsOf(land_blocks, land_plots, c.property_id) # {}

\* the plot row pl carries the attributes of the payload entry e
PlotMatches(pl, e) ==
  /\ pl.plot_number = e.plot_number
  /\ NumericText(pl.area) = e.area
  /\ pl.price = e.price
  /\ pl.status = e.status
  /\ pl.description = e.description

\* the inventory B, P of property p is exactly the payload bj: one block per
\* block entry and in it one plot per plot entry
InventoryIsPayload(B, P, p, bj) ==
  /\ Cardinality(BlocksOf(B, p)) = Len(bj)
  /\ \A i \in 1..Len(bj) :
        \E b \in BlocksOf(B, p) :
          /\ b.name = bj[i].name
          /\ b.description = bj[i].description
          /\ Cardinality({x \in P : x.block_id = b.id}) = Len(bj[i].plots)
          /\ \A j \in 1..Len(bj[i].plots) :
                \E pl \in P : pl.block_id = b.id /\ PlotMatches(pl, bj[i].plots[j])

\* the step in which the apply call of session 1 returns
ApplyReturns == tx[1].pc = "ap_return" /\ tx'[1].pc = "idle" /\ ret'[1].status = "ok"

\* C3: after a successful applyConfiguration(C) the inventory of C's property
\* is one block per block entry of C's payload with the same name and
\* description, in each one plot per plot entry with the same attributes, and
\* no block or plot that existed before the call remains
C3_ApplyRebuilds ==
  [][ApplyReturns =>
       /\ InventoryIsPayload(land_blocks', land_plots', tx[1].property_id_val,
                             tx[1].blocks_json)
       /\ \A b \in BlocksOf(land_blocks', tx[1].property_id_val) :
             b.id \notin {x.id : x \in tx[1].preB}
       /\ \A x \in PlotsOf(land_blocks', land_plots', tx[1].property_id_val) :
             x.id \notin {y.id : y \in tx[1].preP}]_vars

\* an apply replaced an existing inventory by a payload with a plot
C3_Witness ==
  /\ ret[1].op = "apply" /\ ret[1].status = "ok"
  /\ \E c \in property_land_configurations :
        /\ c.id = ret[1].arg
        /\ PlotsOf(land_blocks, land_plots, c.property_id) # {}
        /\ \E x \in land_blocks : x.property_id = c.property_id /\ x.id > FirstId
  /\ SeedPlot1 \notin land_plots

\* a payload without identifiers and without order
PlotsContent(plots) ==
  {[plot_number |-> plots[j].plot_number, area |-> plots[j].area,
    price |-> plots[j].price, status |-> plots[j].status,
    description |-> plots[j].description] : j \in 1..Len(plots)}

PayloadContent(bj) ==
  {[name |-> bj[i].name, description |-> bj[i].description,
    plots |-> PlotsContent(bj[i].plots)] : i \in 1..Len(bj)}

\* two payloads have the same blocks and the same plots with the same
\* attributes, identifiers excepted
SamePayload(a, b) ==
  /\ PayloadContent(a) = PayloadContent(b)
  /\ Len(a) = Len(b)
  /\ \A i \in 1..Len(a) : \E j \in 1..Len(b) :
        a[i].name = b[j].name /\ Len(a[i].plots) = Len(b[j].plots)

\* the row of C with identifier id
RowById(C, id) == CHOOSE c \in C : c.id = id

\* the step in which a createSnapshot returns that was called right after a
\* successful apply on the same property
SnapshotReturnsAfterApply ==
  /\ tx[1].pc = "cs_return" /\ tx'[1].pc = "idle" /\ ret'[1].status = "ok"
  /\ ret[1].op = "apply" /\ ret[1].status = "ok"
  /\ RowById(property_land_configurations, ret[1].arg).property_id = tx[1].property_id_val

\* C4: applying C and then immediately saving a snapshot of the same property
\* yields a configuration whose payload has the same blocks and plots with
\* the same attributes as C's payload, identifiers excepted
C4_RoundTrip ==
  [][SnapshotReturnsAfterApply =>
       SamePayload(RowById(property_land_configurations', ret'[1].value).blocks_data,
                   RowById(property_land_configurations, ret[1].arg).blocks_data)]_vars

\* a snapshot was saved whose payload has a plot without status
C4_Witness ==
  /\ ret[1].op = "createSnapshot" /\ ret[1].status = "ok"
  /\ \E c \in property_land_configurations :
        /\ c.id = ret[1].value
        /\ \E i \in 1..Len(c.blocks_data) : \E j \in 1..Len(c.blocks_data[i].plots) :
              c.blocks_data[i].plots[j].status = NULL
        /\ \E d \in property_land_configurations :
              d.id # c.id /\ SamePayload(c.blocks_data, d.blocks_data)

\* the step in which session 1 calls applyConfiguration(cid)
ApplyCalled(cid) ==
  /\ tx[1].pc = "idle"
  /\ calls' = calls + 1
  /\ \/ tx'[1].op = "apply" /\ tx'[1].config_id = cid
     \/ tx'[1].pc = "idle" /\ ret'[1].op = "apply" /\ ret'[1].arg = cid

\* C5: applyConfiguration on an identifier that does not exist, or that exists
\* but is not active, fails with the not-found error and changes neither the
\* inventory nor any configuration
C5_ApplyNotFound ==
  [][\A cid \in 0..nextId :
       (/\ ApplyCalled(cid)
        /\ ~ \E c \in property_land_configurations : c.id = cid /\ c.is_active)
       => /\ tx'[1].pc = "idle"
          /\ ret'[1].status = "error"
          /\ ret'[1].err = "Configuration not found or not active"
          /\ UNCHANGED <<land_blocks, land_plots, property_land_configurations>>]_vars

\* an apply of an existing, inactive configuration was refused
C5_Witness ==
  /\ ret[1].op = "apply" /\ ret[1].status = "error"
  /\ \E c \in property_land_configurations : c.id = ret[1].arg /\ ~ c.is_active

\* the step in which the createSnapshot call of session 1 returns
SnapshotReturns == tx[1].pc = "cs_return" /\ tx'[1].pc = "idle" /\ ret'[1].status = "ok"

\* the payload bj holds every block of property p with all of its plots and
\* nothing else
PayloadIsInventory(bj, B, P, p) ==
  /\ {bj[i].id : i \in 1..Len(bj)} = {ToString(b.id) : b \in BlocksOf(B, p)}
  /\ Len(bj) = Cardinality(BlocksOf(B, p))
  /\ \A i \in 1..Len(bj) : \A b \in BlocksOf(B, p) :
        bj[i].id = ToString(b.id) =>
          /\ bj[i].name = b.name
          /\ bj[i].description = b.description
          /\ Len(bj[i].plots) = Cardinality({x \in P : x.block_id = b.id})
          /\ {bj[i].plots[j].id : j \in 1..Len(bj[i].plots)}
               = {ToString(x.id) : x \in {y \in P : y.block_id = b.id}}
          /\ \A j \in 1..Len(bj[i].plots) : \A x \in P :
                bj[i].plots[j].id = ToString(x.id) => PlotMatches(x, bj[i].plots[j])

\* C6: a successful createSnapshot(P, name) adds exactly one configuration for
\* P whose payload holds every block of P with all of its plots and no block
\* or plot of another property, marks it active, and leaves every
\* configuration of P that was active before inactive
C6_SnapshotCaptures ==
  [][SnapshotReturns =>
       /\ {c.id : c \in property_land_configurations'}
            = {c.id : c \in property_land_configurations} \cup {ret'[1].value}
       /\ ret'[1].value \notin {c.id : c \in property_land_configurations}
       /\ Cardinality(property_land_configurations')
            = Cardinality(property_land_configurations) + 1
       /\ LET new == RowById(property_land_configurations', ret'[1].value) IN
            /\ new.property_id = tx[1].property_id_val
            /\ new.configuration_name = tx[1].configuration_name
            /\ new.is_active
            /\ PayloadIsInventory(new.blocks_data, land_blocks, land_plots,
                                  tx[1].property_id_val)
       /\ \A c \in ActiveOf(property_land_configurations, tx[1].property_id_val) :
             ~ RowById(property_land_configurations', c.id).is_active]_vars

\* a snapshot superseded an active configuration, of a property with a plot,
\* while another property had blocks
C6_Witness ==
  /\ ret[1].op = "createSnapshot" /\ ret[1].status = "ok"
  /\ \E c \in property_land_configurations :
        /\ c.id = ret[1].value
        /\ \E i \in 1..Len(c.blocks_data) : Len(c.blocks_data[i].plots) > 0
        /\ \E d \in property_land_configurations :
              d.property_id = c.property_id /\ ~ d.is_active
        /\ \E b \in land_blocks : b.property_id # c.property_id

\* the step in which the INSERT of createSnapshot is rejected
SnapshotInsertFails ==
  /\ tx[1].op = "createSnapshot" /\ tx[1].pc = "cs_insert"
  /\ tx'[1].pc = "idle" /\ ret'[1].status = "error"

\* C7: when the insert of createSnapshot fails after the active configuration
\* was deactivated, the deactivation is undone: the configuration that was
\* active before the call is still active and no configuration was added
C7_SnapshotAllOrNothing ==
  [][SnapshotInsertFails =>
       /\ property_land_configurations' = tx[1].preC
       /\ \A c \in ActiveOf(tx[1].preC, tx[1].property_id_val) :
             c \in property_land_configurations']_vars

\* the insert of a snapshot was rejected for a property with an active
\* configuration
C7_Witness ==
  /\ ret[1].op = "createSnapshot" /\ ret[1].status = "error"
  /\ ret[1].err = "constraint"
  /\ ActiveOf(property_land_configurations, ret[1].arg) # {}

----------------------------------------------------------------------------
(* Claims about the concurrent specification *)

\* the active configurations session s has inserted and not yet committed
PendingActive(s, p) == {c \in tx[s].insC : c.property_id = p /\ c.is_active}

\* C8: under any interleaving of two concurrent createSnapshot calls for the
\* same property no committed state has two active configurations of that
\* property, and the two calls never both hold an inserted active
\* configuration of it: the unique index makes the second insert wait or fail
C8_ConcurrentSnapshotsOneActive ==
  \A p \in Properties :
    /\ \A c, d \in property_land_configurations :
          (c.property_id = p /\ d.property_id = p /\ c.is_active /\ d.is_active)
            => c.id = d.id
    /\ PendingActive(1, p) = {} \/ PendingActive(2, p) = {}

\* of two createSnapshot calls for the same property one was saved and the
\* other was rejected by the unique index
C8_Witness ==
  \E s, o \in Sessions :
    /\ ret[s].op = "createSnapshot" /\ ret[s].status = "ok"
    /\ ret[o].op = "createSnapshot" /\ ret[o].status = "error"
    /\ ret[o].err = "constraint"
    /\ ret[o].arg = ret[s].arg
    /\ Cardinality(ActiveOf(property_land_configurations, ret[s].arg)) = 1

\* the step in which the apply call of session s returns
ApplyReturnsIn(s) ==
  tx[s].pc = "ap_return" /\ tx'[s].pc = "idle" /\ ret'[s].status = "ok"

\* the other session applied a configuration of property p with success, and
\* the inventory (B, P) of p is the payload of that configuration
IsPayloadOfOther(B, P, p, s) ==
  \E o \in Sessions \ {s} :
    /\ ret[o].op = "apply" /\ ret[o].status = "ok"
    /\ \E c \in property_land_configurations :
          /\ c.id = ret[o].arg
          /\ c.property_id = p
          /\ InventoryIsPayload(B, P, p, c.blocks_data)

\* C9: under any interleaving of two concurrent applyConfiguration calls on
\* the same property the committed inventory is the one a serial execution
\* produces: when a call returns, the inventory of the property is the
\* payload of that call or the payload of the other call, each block entry
\* once with exactly its plots, and never the rebuild of one call next to
\* the rebuild of the other
C9_ConcurrentAppliesSerialise ==
  [][\A s \in Sessions :
       ApplyReturnsIn(s) =>
         \/ InventoryIsPayload(land_blocks', land_plots', tx[s].property_id_val,
                               tx[s].blocks_json)
         \/ IsPayloadOfOther(land_blocks', land_plots', tx[s].property_id_val, s)]_vars

\* the step in which a reader reads the statistics
ReaderReads == stats'.at # stats.at

\* the committed inventory or the committed configurations change
TablesChange ==
  \/ land_blocks' # land_blocks
  \/ land_plots' # land_plots
  \/ property_land_configurations' # property_land_configurations

\* session s ends its call and all of its writes are committed at once
CallCommits(s) ==
  /\ InProgress(s) /\ tx'[s].pc = "idle" /\ ret'[s].status = "ok"
  /\ \A b \in tx[s].insB : b \in land_blocks'
  /\ \A p \in tx[s].insP : p \in land_plots'
  /\ \A c \in tx[s].insC : c \in property_land_configurations'
  /\ \A b \in land_blocks' : b.id \notin tx[s].delB
  /\ \A p \in land_plots' : p.id \notin tx[s].delP
  /\ \A c \in property_land_configurations' : c.id \in tx[s].updC => ~ c.is_active

\* nothing a reader can see has been touched by the call in progress in
\* session s: the rows it deleted or deactivated are there as they were and
\* the rows it inserted are not
Untouched(s, B, P, C) ==
  /\ \A id \in tx[s].delB : \E b \in B : b.id = id
  /\ \A id \in tx[s].delP : \E p \in P : p.id = id
  /\ \A id \in tx[s].updC : \E c \in C : c.id = id /\ c.is_active
  /\ \A b \in tx[s].insB : \A x \in B : x.id # b.id
  /\ \A p \in tx[s].insP : \A x \in P : x.id # p.id
  /\ \A c \in tx[s].insC : \A x \in C : x.id # c.id

\* C10: a reader running concurrently with applyConfiguration, bulkInsert,
\* safeDeleteBlock or createSnapshot never observes an intermediate state of
\* the operation: what it reads shows none of the writes of a call in
\* progress (the state before it), the statistics it gets are those of that
\* state, and what it can read changes only when a call ends, by all the
\* writes of that call at once (the state after it)
C10_ReaderNeverSeesHalfDone ==
  [][/\ ReaderReads =>
          /\ \A s \in Sessions :
                InProgress(s) => Untouched(s, ReaderBlocks, ReaderPlots, ReaderConfigs)
          /\ stats'.row = get_property_land_statistics(land_blocks, land_plots,
                                                       stats'.input_property_id)
     /\ TablesChange => \E s \in Sessions : CallCommits(s)]_vars

\* a reader read the statistics while an apply stood between its teardown
\* and the end of its rebuild, and saw the plots the teardown deleted
C10_Witness ==
  \E s \in Sessions :
    /\ stats.during[s] \in {"ap_insert_block", "ap_insert_plot", "ap_return"}
    /\ stats.row.total_plots > 0
    /\ stats.at = calls
    /\ tx[s].pc = stats.during[s]
    /\ tx[s].delP # {}
    /\ \A p \in land_plots : p.id \in tx[s].delP

----------------------------------------------------------------------------
(* Claims about plot numbering *)

\* the step in which session 1 calls nextPlotNumber and gets a number
NumberReturned ==
  /\ calls' = calls + 1
  /\ ret'[1].op = "nextPlotNumber" /\ ret'[1].status = "ok"

\* the numeric suffix of a number returned for the prefix
ReturnedSuffix(text, plot_prefix) == SubstringFrom(text, Len(plot_prefix) + 1)

\* the plot that the last call of session 1 inserted carries the number that
\* nextPlotNumber(b, prefix) returned for the block without that plot
InsertedReturnedNumber(b, plot_prefix) ==
  /\ ret[1].op = "createPlot" /\ ret[1].status = "ok" /\ ret[1].arg = b
  /\ LET r == RowById(land_plots, ret[1].value) IN
       /\ ~ get_next_plot_number_fails(land_plots \ {r}, b, plot_prefix)
       /\ r.plot_number = get_next_plot_number(land_plots \ {r}, b, plot_prefix)

\* C13: two successive nextPlotNumber(B, prefix) calls with no insert in
\* between return the same value and change no state; after a plot with the
\* returned number is inserted into B, the next call returns the number
\* whose numeric suffix is larger by one
C13_IdempotentThenSuccessor ==
  [][NumberReturned =>
       /\ UNCHANGED <<land_blocks, land_plots, property_land_configurations>>
       /\ (/\ ret[1].op = "nextPlotNumber" /\ ret[1].status = "ok"
           /\ ret[1].arg = ret'[1].arg /\ ret[1].text_arg = ret'[1].text_arg)
            => ret'[1].text = ret[1].text
       /\ InsertedReturnedNumber(ret'[1].arg, ret'[1].text_arg) =>
            LET old == RowById(land_plots, ret[1].value).plot_number IN
              /\ AllDigits(ReturnedSuffix(ret'[1].text, ret'[1].text_arg))
              /\ CastInteger(ReturnedSuffix(ret'[1].text, ret'[1].text_arg))
                   = CastInteger(ReturnedSuffix(old, ret'[1].text_arg)) + 1]_vars

\* the plots of block b whose number is the prefix followed only by digits
NumberedWith(P, b, plot_prefix) ==
  {x \in P : x.block_id = b /\ MatchesPrefixDigits(x.plot_number, plot_prefix)}

\* m is the largest numeric suffix among those plots, 0 when there is none
IsLargestSuffix(m, P, b, plot_prefix) ==
  /\ \A x \in NumberedWith(P, b, plot_prefix) :
        CastInteger(ReturnedSuffix(x.plot_number, plot_prefix)) <= m
  /\ \/ m = 0
     \/ \E x \in NumberedWith(P, b, plot_prefix) :
          CastInteger(ReturnedSuffix(x.plot_number, plot_prefix)) = m

\* the decimal digits of n, with zeros in front up to three digits
ThreeDigits(n) ==
  CASE n < 10 -> "00" \o ToString(n)
    [] n >= 10 /\ n < 100 -> "0" \o ToString(n)
    [] OTHER -> ToString(n)

\* C14: nextPlotNumber(B, prefix) returns the prefix followed by m + 1
\* zero-padded to three digits, m being the largest numeric suffix among the
\* plots of B numbered prefix-and-digits (0 when none); plots with another
\* prefix or a non-numeric suffix, gaps and plots of other blocks do not
\* affect the result
C14_NextIsMaxPlusOne ==
  [][NumberReturned =>
       \E m \in {0} \cup {CastInteger(ReturnedSuffix(x.plot_number, ret'[1].text_arg)) :
                            x \in NumberedWith(land_plots, ret'[1].arg, ret'[1].text_arg)} :
         /\ IsLargestSuffix(m, land_plots, ret'[1].arg, ret'[1].text_arg)
         /\ ret'[1].text = ret'[1].text_arg \o ThreeDigits(m + 1)]_vars

\* C15: when the next numeric suffix is 1000 or more, nextPlotNumber returns
\* the prefix followed by the full decimal number, not a value cut to three
\* digits
C15_NoTruncationFrom1000 ==
  [][NumberReturned =>
       \A x \in NumberedWith(land_plots, ret'[1].arg, ret'[1].text_arg) :
         CastInteger(ReturnedSuffix(x.plot_number, ret'[1].text_arg)) >= 999
           => Len(ReturnedSuffix(ret'[1].text, ret'[1].text_arg)) >= 4]_vars

\* C16: the number nextPlotNumber returns is unused in the block under the
\* block's uniqueness rule (comparison ignoring case), so the insert of the
\* caller under that number is never rejected as a duplicate
C16_ReturnedNumberUnused ==
  [][NumberReturned =>
       \A x \in land_plots :
         x.block_id = ret'[1].arg => Lower(x.plot_number) # Lower(ret'[1].text)]_vars

----------------------------------------------------------------------------
(* Claims about concurrent plot numbering *)

\* C11: when two callers concurrently run nextPlotNumber for the same block
\* and each insert a plot with the number they obtained, no committed state
\* of the block holds two plots with the same plot number ignoring case,
\* even though both callers may have read the same maximum
C11_NoDuplicateNumberCommitted ==
  \A x, y \in land_plots :
    (x.block_id = y.block_id /\ Lower(x.plot_number) = Lower(y.plot_number)) => x.id = y.id

\* both callers obtained the same number for the same block while the other
\* was in progress; one inserted its plot and the other was rejected
C11_Witness ==
  \E s, o \in Sessions :
    /\ ret[s].op = "allocate" /\ ret[s].status = "ok"
    /\ ret[o].op = "allocate" /\ ret[o].status = "error" /\ ret[o].err = "constraint"
    /\ ret[o].arg = ret[s].arg
    /\ \E x \in land_plots : x.id = ret[s].value /\ x.block_id = ret[s].arg
    /\ calls = 2

\* the step in which the insert of the caller in session s is rejected as a
\* duplicate although the number was unused when the caller obtained it
AllocationCollides(s) ==
  /\ tx[s].op = "allocate" /\ tx[s].pc = "al_insert"
  /\ tx'[s].pc = "idle" /\ ret'[s].status = "error" /\ ret'[s].err = "constraint"
  /\ \A x \in tx[s].preP :
        x.block_id = tx[s].block_uuid => Lower(x.plot_number) # Lower(tx[s].plot_number)

\* C12: concurrent plot-number allocations for the same block are
\* serialized, or re-checked and retried on conflict: none of two concurrent
\* allocate-and-insert callers ends in a uniqueness failure, each ends with
\* its own plot inserted under a distinct number
C12_AllocationsSerialised ==
  [][\A s \in Sessions : ~ AllocationCollides(s)]_vars

----------------------------------------------------------------------------
(* Claims about delete_land_block_safely *)

\* the step in which session 1 calls safeDeleteBlock: the call goes on to
\* its deletes, or it returns at once
SafeDeleteCalled ==
  /\ tx[1].pc = "idle"
  /\ calls' = calls + 1
  /\ \/ tx'[1].op = "safeDelete"
     \/ tx'[1].pc = "idle" /\ ret'[1] # ret[1] /\ ret'[1].op = "safeDelete"

\* the block identifier passed in that step
SafeDeleteArg == IF tx'[1].op = "safeDelete" THEN tx'[1].block_uuid ELSE ret'[1].arg

\* C17: safeDeleteBlock on an identifier that matches no block returns false
\* without raising an error and leaves every block, plot, configuration and
\* history entry unchanged
C17_SafeDeleteMissingBlock ==
  [][(SafeDeleteCalled /\ ~ \E x \in land_blocks : x.id = SafeDeleteArg) =>
       /\ tx'[1].pc = "idle"
       /\ ret'[1] = Immediate(Result("safeDelete", SafeDeleteArg, "ok", "", 0))
       /\ UNCHANGED <<land_blocks, land_plots, property_land_configurations,
                      land_plot_status_history>>]_vars

\* safeDeleteBlock returned false for an identifier of no block while plots
\* and blocks existed
C17_Witness ==
  /\ ret[1].op = "safeDelete" /\ ret[1].status = "ok" /\ ret[1].value = 0
  /\ ~ \E x \in land_blocks : x.id = ret[1].arg
  /\ land_blocks # {} /\ land_plots # {}

\* the step in which the safeDeleteBlock call of session 1 returns
SafeDeleteReturns == tx[1].pc = "sd_return" /\ tx'[1].pc = "idle" /\ ret'[1].status = "ok"

\* the step in which the safeDeleteBlock call of session 1 deletes the block
SafeDeleteDeletesBlock == tx[1].pc = "sd_delete_block" /\ tx'[1].pc = "sd_return"

\* C18: safeDeleteBlock on an existing block with N plots returns true,
\* removes the block and all N of its plots, the plots before the block,
\* leaves no row that references the deleted block, and leaves every other
\* block and its plots unchanged
C18_SafeDeleteExistingBlock ==
  [][/\ (SafeDeleteCalled /\ \E x \in land_blocks : x.id = SafeDeleteArg) =>
          tx'[1].pc = "sd_delete_plots"
     /\ SafeDeleteDeletesBlock =>
          \A x \in VisiblePlots(1) :
            x.block_id = tx[1].block_uuid => x.id \in tx[1].delP
     /\ SafeDeleteReturns =>
          /\ ret'[1].value = 1
          /\ \A x \in land_blocks' : x.id # tx[1].block_uuid
          /\ \A x \in land_plots' : x.block_id # tx[1].block_uuid
          /\ land_blocks' = {x \in land_blocks : x.id # tx[1].block_uuid}
          /\ land_plots' = {x \in land_plots : x.block_id # tx[1].block_uuid}
          /\ UNCHANGED property_land_configurations]_vars

\* safeDeleteBlock returned true for a block that had a plot, and another
\* block with a plot is still there
C18_Witness ==
  /\ ret[1].op = "safeDelete" /\ ret[1].status = "ok" /\ ret[1].value = 1
  /\ ret[1].arg = SeedBlock1.id
  /\ SeedBlock2 \in land_blocks /\ SeedPlot2 \in land_plots
  /\ ~ \E x \in land_blocks : x.id = ret[1].arg
  /\ ~ \E x \in land_plots : x.block_id = ret[1].arg

----------------------------------------------------------------------------
(* Claims about get_property_land_statistics *)

RECURSIVE SumArea(_)
\* the sum of the areas of the plots P
SumArea(P) ==
  IF P = {} THEN 0
  ELSE LET x == CHOOSE y \in P : TRUE IN x.area + SumArea(P \ {x})

\* the result row reports the numbers of blocks and plots of property p, the
\* numbers of its plots in each status and the sum of their areas
ReportsInventory(row, p) ==
  LET plots == PlotsOf(land_blocks, land_plots, p) IN
  /\ row.total_blocks = Cardinality(BlocksOf(land_blocks, p))
  /\ row.total_plots = Cardinality(plots)
  /\ row.available_plots = Cardinality({x \in plots : x.status = "available"})
  /\ row.booked_plots = Cardinality({x \in plots : x.status = "booked"})
  /\ row.sold_plots = Cardinality({x \in plots : x.status = "sold"})
  /\ row.reserved_plots = Cardinality({x \in plots : x.status = "reserved"})
  /\ row.total_area = SumArea(plots)

\* property p holds one block with P001 (available, 1200) and P002 (booked,
\* 1500)
IsScenarioInventory(p) ==
  /\ Cardinality(BlocksOf(land_blocks, p)) = 1
  /\ {<<x.plot_number, x.status, x.area>> : x \in PlotsOf(land_blocks, land_plots, p)}
       = {<<"P001", "available", 1200>>, <<"P002", "booked", 1500>>}
  /\ Cardinality(PlotsOf(land_blocks, land_plots, p)) = 2

\* the numbers of the scenario
ReportsScenario(row) ==
  /\ row.total_blocks = 1 /\ row.total_plots = 2
  /\ row.available_plots = 1 /\ row.booked_plots = 1
  /\ row.total_area = 2700
  /\ row.average_plot_size.num = 1350 * row.average_plot_size.den

\* C19: in every reachable state, for every property P, getStatistics(P)
\* reports total_blocks, total_plots, the available, booked, sold and
\* reserved counts and total_area of the blocks and plots of P; for one
\* block holding P001 (available, 1200) and P002 (booked, 1500) it reports
\* 1, 2, 1, 1, total_area 2700 and average 1350
C19_StatisticsReportInventory ==
  [][/\ \A p \in Properties :
          LET row == get_property_land_statistics(land_blocks, land_plots, p) IN
            /\ ReportsInventory(row, p)
            /\ IsScenarioInventory(p) => ReportsScenario(row)
     /\ ReaderReads =>
          /\ ReportsInventory(stats'.row, stats'.input_property_id)
          /\ IsScenarioInventory(stats'.input_property_id)
               => ReportsScenario(stats'.row)]_vars

\* the statistics of the scenario inventory were read
C19_Witness ==
  /\ stats.at > 0
  /\ IsScenarioInventory(stats.input_property_id)
  /\ ReportsScenario(stats.row)
  /\ stats.at = calls

\* every plot count, the total area, the average, the minimum and the
\* maximum of the row are zero
ReportsNoPlots(row) ==
  /\ row.total_plots = 0 /\ row.available_plots = 0 /\ row.booked_plots = 0
  /\ row.sold_plots = 0 /\ row.reserved_plots = 0
  /\ row.total_area = 0 /\ row.average_plot_size.num = 0
  /\ row.min_plot_size = 0 /\ row.max_plot_size = 0

\* C20: getStatistics(P) never fails when P has no plots: with zero blocks
\* its result has all counts and areas zero, and with blocks but no plots it
\* has total_blocks equal to the number of blocks and every plot count, the
\* total area, the average, the minimum and the maximum zero
C20_StatisticsWithoutPlots ==
  [][/\ \A p \in Properties :
          PlotsOf(land_blocks, land_plots, p) = {} =>
            LET row == get_property_land_statistics(land_blocks, land_plots, p) IN
              /\ row.total_blocks = Cardinality(BlocksOf(land_blocks, p))
              /\ ReportsNoPlots(row)
     /\ (ReaderReads /\ PlotsOf(land_blocks, land_plots, stats'.input_property_id) = {}) =>
          /\ stats'.row.total_blocks
               = Cardinality(BlocksOf(land_blocks, stats'.input_property_id))
          /\ ReportsNoPlots(stats'.row)]_vars

\* the statistics of a property with a block and no plot were read
C20_Witness ==
  /\ stats.at = calls /\ stats.at > 0
  /\ stats.row.total_blocks > 0
  /\ stats.row.total_plots = 0
  /\ BlocksOf(land_blocks, stats.input_property_id) # {}
  /\ PlotsOf(land_blocks, land_plots, stats.input_property_id) = {}

----------------------------------------------------------------------------
(* Claims about the status of the plots *)

\* C29: in every reachable state the status of every plot is one of
\* available, booked, sold, reserved and blocked, also for a plot that
\* apply_property_land_configuration created from an entry without a status
C29_StatusAlwaysValid == \A x \in land_plots : x.status \in Statuses

----------------------------------------------------------------------------
(* Claims about the status tracker *)

\* the status of the plot with identifier x among the plots P
StatusOf(P, x) == (CHOOSE r \in P : r.id = x).status

PlotIds == {r.id : r \in land_plots}

C22_TrackerFailureSwallowed ==
  [][\A x \in PlotIds, t \in Statuses :
       (UpdatePlotStatus(1, x, t) /\ history_table # HistoryReady) =>
         /\ ret'[1].status = "ok"
         /\ StatusOf(land_plots', x) = t
         /\ land_plot_status_history' = land_plot_status_history]_vars

\* without the column old_status, plot 2, never booked before, is now booked
C22_Witness ==
  /\ history_table = HistoryNoOldStatus
  /\ ret[1].op = "updateStatus" /\ ret[1].status = "ok" /\ ret[1].arg = 2
  /\ StatusOf(land_plots, 2) = "booked"
  /\ land_plot_status_history = {}

----------------------------------------------------------------------------
(* Claims about update_plot_booking *)

\* the row with identifier x among the rows R
RowOf(R, x) == CHOOSE r \in R : r.id = x

BookablePlotIds == {r.id : r \in property_plots}

\* C23: update_plot_booking(plotId, 'sold', userId) on a plot whose status was
\* available sets its status to sold and booked_by to userId and adds exactly
\* one history entry, of that plot, with previous status available and new
\* status sold
C23_BookingSoldRecorded ==
  [][\A x \in BookablePlotIds, u \in Users :
       (update_plot_booking(1, x, "sold", u) /\ RowOf(property_plots, x).status = "available")
         => /\ RowOf(property_plots', x).status = "sold"
            /\ RowOf(property_plots', x).booked_by = u
            /\ \E h \in land_plot_status_history' :
                 /\ h \notin land_plot_status_history
                 /\ land_plot_status_history' = land_plot_status_history \cup {h}
                 /\ h.plot_id = x
                 /\ h.old_status = "available"
                 /\ h.new_status = "sold"]_vars

\* C24: update_plot_booking(plotId, s, userId) returns true exactly when a
\* plot with that id exists; it then has set the status to s and, for booked
\* and sold, booked_by to userId and booked_at to the time of the call, for
\* every other s both to NULL; when no such plot exists it returns false and
\* changes nothing
C24_BookingSetsOrClears ==
  [][\A x \in BookablePlotIds \cup {0}, t \in {"sold", "booked", "available"}, u \in Users :
       update_plot_booking(1, x, t, u) =>
         /\ ret'[1].status = "ok"
         /\ IF x \in BookablePlotIds
            THEN /\ ret'[1].value = 1
                 /\ RowOf(property_plots', x).status = t
                 /\ RowOf(property_plots', x).booked_by =
                      (IF t \in {"booked", "sold"} THEN u ELSE NULL)
                 /\ RowOf(property_plots', x).booked_at =
                      (IF t \in {"booked", "sold"} THEN calls' ELSE 0)
            ELSE /\ ret'[1].value = 0
                 /\ UNCHANGED <<property_plots, land_plots, land_plot_status_history>>]_vars

----------------------------------------------------------------------------
(* Claims about the writes of blocks and plots *)

\* the payload bj has a plot entry whose area is zero or negative
HasNonPositiveArea(bj) ==
  \E i \in 1..Len(bj) : \E j \in 1..Len(bj[i].plots) :
    /\ IsNumericText(bj[i].plots[j].area)
    /\ CastNumeric(bj[i].plots[j].area) <= 0

\* session 1 made the call op and the call ended in the step in which it began
CallEnds(op) == calls' # calls /\ ret'[1] # ret[1] /\ ret'[1].op = op

\* C25: the insert of a plot whose area is zero or negative, individually,
\* through the bulk insert or through the apply of a configuration, is
\* rejected with an error and leaves the blocks and plots as they were
C25_NonPositiveAreaRejected ==
  [][/\ \A b \in BlockArgs, in \in WritePlotInputs :
          (CallEnds("createPlot") /\ in[2] <= 0 /\ CreatePlot(1, b, in)) =>
            ret'[1].status = "error" /\ UNCHANGED <<land_blocks, land_plots>>
     /\ (CallEnds("bulkInsert") /\ HasNonPositiveArea(ret'[1].payload)) =>
            ret'[1].status = "error" /\ UNCHANGED <<land_blocks, land_plots>>
     /\ (tx[1].op = "apply" /\ HasNonPositiveArea(tx[1].blocks_json)) =>
          /\ UNCHANGED <<land_blocks, land_plots>>
          /\ tx'[1].pc = "idle" =>
               /\ ret'[1].status = "error"
               /\ land_blocks' = tx[1].preB
               /\ land_plots' = tx[1].preP]_vars

\* the apply of the configuration whose only plot entry has area -50 was
\* rejected, and the inventory is that of before the call
C25_Witness ==
  /\ ret[1].op = "apply" /\ ret[1].status = "error" /\ ret[1].err = "constraint"
  /\ \E c \in property_land_configurations :
       c.id = ret[1].arg /\ c.blocks_data = PayloadNegativeArea
  /\ land_blocks = {SeedBlock1, SeedBlock2}
  /\ land_plots = {SeedPlot1, SeedPlot2}

\* the payload data for property p has two blocks with the same name ignoring
\* case, a block named as a block of p among B is, or two plots with the same
\* number ignoring case in one block
HasDuplicate(B, p, data) ==
  \/ \E i, j \in 1..Len(data) : i # j /\ Lower(data[i].name) = Lower(data[j].name)
  \/ \E i \in 1..Len(data) : \E b \in B :
       b.property_id = p /\ Lower(b.name) = Lower(data[i].name)
  \/ \E i \in 1..Len(data) : \E j, k \in 1..Len(data[i].plots) :
       /\ j # k
       /\ Lower(data[i].plots[j].plot_number) = Lower(data[i].plots[k].plot_number)

\* C26: a bulk insert whose payload has such a duplicate fails as a whole: it
\* raises and none of the blocks and plots of the payload is inserted
C26_BulkInsertAllOrNothing ==
  [][(CallEnds("bulkInsert") /\ HasDuplicate(land_blocks, ret'[1].arg, ret'[1].payload)) =>
       ret'[1].status = "error" /\ UNCHANGED <<land_blocks, land_plots>>]_vars

\* the bulk insert of a block C followed by a block named as a block of the
\* property is was rejected, and no block C exists
C26_Witness ==
  /\ ret[1].op = "bulkInsert" /\ ret[1].status = "error"
  /\ ret[1].payload = PayloadUsedName
  /\ ret[1].arg = SeedBlock1.property_id
  /\ SeedBlock1 \in land_blocks
  /\ ~ \E b \in land_blocks : b.name = "C"

\* the payload data is valid for property p next to the blocks B
ValidPayload(B, p, data) ==
  /\ Len(data) > 0
  /\ ~ HasDuplicate(B, p, data)
  /\ \A i \in 1..Len(data) :
       /\ data[i].name # NULL
       /\ \A j \in 1..Len(data[i].plots) :
            LET e == data[i].plots[j] IN
            /\ e.plot_number # NULL /\ e.price # NULL
            /\ IsNumericText(e.area) /\ CastNumeric(e.area) > 0
            /\ e.status \in Statuses \cup {NULL}

\* the plot entry e, its status available when it has none
WithDefaultStatus(e) == [e EXCEPT !.status = IF @ = NULL THEN "available" ELSE @]

\* the blocks B and plots P are those of the payload data, created for
\* property p: one block per entry and under it one plot per nested entry
CreatedFromPayload(B, P, p, data) ==
  /\ Cardinality(B) = Len(data)
  /\ \A i \in 1..Len(data) :
       \E b \in B :
         /\ b.property_id = p
         /\ b.name = data[i].name
         /\ Cardinality({x \in P : x.block_id = b.id}) = Len(data[i].plots)
         /\ \A j \in 1..Len(data[i].plots) :
              \E pl \in P :
                pl.block_id = b.id /\ PlotMatches(pl, WithDefaultStatus(data[i].plots[j]))
  /\ \A x \in P : \E b \in B : x.block_id = b.id

\* C27: a bulk insert for property p with a valid non-empty payload succeeds,
\* keeps the blocks and plots there were, adds one block per payload block and
\* one plot per nested payload plot under the block of its parent entry, with
\* status available when the entry has none, and returns the created rows
\* with their fresh identifiers
C27_BulkInsertCreates ==
  [][(CallEnds("bulkInsert") /\ ValidPayload(land_blocks, ret'[1].arg, ret'[1].payload)) =>
         /\ ret'[1].status = "ok"
         /\ land_blocks \subseteq land_blocks'
         /\ land_plots \subseteq land_plots'
         /\ CreatedFromPayload(land_blocks' \ land_blocks, land_plots' \ land_plots,
                               ret'[1].arg, ret'[1].payload)
         /\ \A r \in (land_blocks' \ land_blocks) \cup (land_plots' \ land_plots) :
              r.id >= nextId
         /\ ret'[1].value =
              Cardinality(land_blocks' \ land_blocks) + Cardinality(land_plots' \ land_plots)]_vars

\* C28: in every reachable state no two blocks of one property have names that
\* are equal ignoring case and no two plots of one block have numbers that
\* are equal ignoring case
C28_NamesAndNumbersUnique ==
  /\ \A a, b \in land_blocks :
       (a.id # b.id /\ a.property_id = b.property_id) => Lower(a.name) # Lower(b.name)
  /\ \A a, b \in land_plots :
       (a.id # b.id /\ a.block_id = b.block_id) =>
         Lower(a.plot_number) # Lower(b.plot_number)

\* blocks named A were created in both properties, and a plot p001 next to
\* the plot P001 of another block
C28_Witness ==
  /\ \E a, b \in land_blocks :
       a.property_id # b.property_id /\ a.name = "A" /\ b.name = "A"
  /\ \E a, b \in land_plots :
       a.block_id # b.block_id /\ a.plot_number = "P001" /\ b.plot_number = "p001"

----------------------------------------------------------------------------
(* DELETE FROM land_plots WHERE id = plot_id, the delete of the route        *)
(* handlers                                                                  *)

\* the identifiers of the rows C of a table
Ids(C) == {c.id : c \in C}

\* plot_id REFERENCES land_plots(id) ON DELETE CASCADE: the history rows H
\* without those of the deleted plots
HistoryAfterDelete(H, deleted) == {h \in H : h.plot_id \notin deleted}

DeletePlot(s, plot_id) ==
  /\ ~ InProgress(s)
  /\ calls < MaxCalls
  /\ plot_id \notin LockedPlots(s)
  /\ land_plots' = {x \in land_plots : x.id # plot_id}
  /\ land_plot_status_history' = HistoryAfterDelete(land_plot_status_history, {plot_id})
  /\ ret' = [ret EXCEPT ![s] =
               Immediate(Result("deletePlot", plot_id, "ok", "",
                                Cardinality({x \in land_plots : x.id = plot_id})))]
  /\ calls' = calls + 1
  /\ UNCHANGED <<land_blocks, property_land_configurations, nextId, tx, stats,
                 history_table, property_plots>>

----------------------------------------------------------------------------
(* Audit specification: one session updates the status of plots, deletes     *)
(* plots and blocks, and saves, duplicates and applies configurations        *)

\* the status values a caller passes in this specification
AuditStatusInputs == {"sold", "blocked"}

\* two block entries, each with a plot entry of the same number
PayloadTwoParents ==
  << BlockEntry("A", << PlotEntry("P001", "1200", "booked") >>),
     BlockEntry("B", << PlotEntry("P001", "1500", "available") >>) >>

\* the payloads of the active configuration of property 1
AuditPayloads == {PayloadScenario, PayloadTwoParents}

InitAudit ==
  /\ land_blocks = {ScenarioBlock, SeedBlock2}
  /\ land_plots = {ScenarioPlot1, SeedPlot2}
  /\ \E payload \in AuditPayloads :
       property_land_configurations = {SeedConfig(payload)}
  /\ nextId = FirstId
  /\ calls = 0
  /\ tx = [s \in Sessions |-> Idle]
  /\ ret = [s \in Sessions |-> NoRet]
  /\ stats = NoStats
  /\ NoAudit

NextAudit ==
  \/ \E x \in Ids(land_plots), t \in AuditStatusInputs : UpdatePlotStatus(1, x, t)
  \/ \E x \in Ids(land_plots) : DeletePlot(1, x)
  \/ \E b \in Ids(land_blocks) : delete_land_block_safely_select(1, b)
  \/ delete_land_block_safely_delete_plots(1)
  \/ delete_land_block_safely_delete_block(1)
  \/ delete_land_block_safely_return(1)
  \/ \E p \in Properties : create_property_land_configuration_select(1, p, "cfg")
  \/ create_property_land_configuration_update(1)
  \/ create_property_land_configuration_insert(1)
  \/ create_property_land_configuration_return(1)
  \/ \E cid \in Ids(property_land_configurations) :
        apply_property_land_configuration_select(1, cid)
  \/ apply_property_land_configuration_delete_plots(1)
  \/ apply_property_land_configuration_delete_blocks(1)
  \/ apply_property_land_configuration_insert_block(1)
  \/ apply_property_land_configuration_insert_plot(1)
  \/ apply_property_land_configuration_return(1)
  \/ \E src \in Ids(property_land_configurations) :
        duplicate_property_land_configuration(1, src, "cfg")
  \/ Cancel(1)

SpecAudit == InitAudit /\ [][NextAudit]_vars

----------------------------------------------------------------------------
(* Claims about the configurations: activation, duplication, frames *)

\* the step in which a call op of session 1 that began in this step ends
CallBeginsAndEnds(op) ==
  /\ tx[1].pc = "idle" /\ tx'[1].pc = "idle"
  /\ calls' = calls + 1
  /\ ret'[1].op = op

\* C31: applyConfiguration(C) on an existing configuration C makes C the one
\* active configuration of its property: a C that was inactive is activated
\* and the configuration that was active before is deactivated, so the call
\* is not refused because C is inactive
C31_ApplyActivates ==
  [][/\ \A cid \in Ids(property_land_configurations) :
          ApplyCalled(cid) =>
            ~ (/\ tx'[1].pc = "idle" /\ ret'[1].status = "error"
               /\ ret'[1].err = "Configuration not found or not active")
     /\ ApplyReturns =>
          ActiveOf(property_land_configurations', tx[1].property_id_val)
            = {RowById(property_land_configurations', tx[1].config_id)}]_vars

\* C32: duplicateConfiguration(S, newName) on an existing S adds exactly one
\* configuration, with S's property and payload, the new name and active =
\* false, and leaves every other configuration and the inventory unchanged;
\* when S does not exist it fails with the not-found error and adds nothing
C32_DuplicateCopies ==
  [][\A src \in 0..nextId, name \in ConfigNames \ {NULL} :
       (/\ CallBeginsAndEnds("duplicate")
        /\ ret'[1].arg = src
        /\ duplicate_property_land_configuration(1, src, name))
       => IF src \in Ids(property_land_configurations)
          THEN LET S == RowById(property_land_configurations, src) IN
               /\ ret'[1].status = "ok"
               /\ ret'[1].value \notin Ids(property_land_configurations)
               /\ \E new \in property_land_configurations' :
                     /\ new.id = ret'[1].value
                     /\ property_land_configurations'
                          = property_land_configurations \cup {new}
                     /\ new.property_id = S.property_id
                     /\ new.blocks_data = S.blocks_data
                     /\ new.configuration_name = name
                     /\ ~ new.is_active
               /\ UNCHANGED <<land_blocks, land_plots, land_plot_status_history>>
          ELSE /\ ret'[1].status = "error"
               /\ ret'[1].err = "Source configuration not found"
               /\ UNCHANGED <<property_land_configurations, land_blocks, land_plots,
                              land_plot_status_history>>]_vars

\* a configuration with a block in its payload was duplicated while its
\* property had an active configuration
C32_Witness ==
  /\ ret[1].op = "duplicate" /\ ret[1].status = "ok"
  /\ \E new, S \in property_land_configurations :
        /\ new.id = ret[1].value /\ S.id = ret[1].arg
        /\ ~ new.is_active
        /\ new.blocks_data = S.blocks_data /\ Len(S.blocks_data) > 0
        /\ ActiveOf(property_land_configurations, S.property_id) # {}

----------------------------------------------------------------------------
(* Claims about the audit specification *)

\* C33: when a plot is deleted (explicitly, by safeDeleteBlock or by the
\* teardown of applyConfiguration) every history entry of that plot is
\* still in the history afterwards, with its plot reference null (0, the
\* identifier no plot has) and its other attributes as before
C33_HistoryKeptOnPlotDelete ==
  [][\A h \in land_plot_status_history :
       (h.plot_id \in Ids(land_plots) /\ h.plot_id \notin Ids(land_plots'))
       => [h EXCEPT !.plot_id = 0] \in land_plot_status_history']_vars

\* every plot among the rows P references a block among the rows B
PlotsReferenceBlocks(B, P) == \A x \in P : x.block_id \in Ids(B)

\* the step in which a DELETE of session 1 removes blocks
BlocksDeleted == tx'[1].delB # tx[1].delB

\* the step in which the apply call of session 1 inserts a plot
ApplyInsertsPlot == tx[1].pc = "ap_insert_plot" /\ tx'[1].insP # tx[1].insP

\* C34: referential integrity holds at every step, the intermediate steps of
\* applyConfiguration and safeDeleteBlock included: every plot in the tables
\* and every plot the running call sees references an existing block; when
\* blocks are deleted their plots are already deleted; and each plot that
\* applyConfiguration re-creates references the block created in this call
\* from the payload entry that holds the plot
C34_ReferentialIntegrity ==
  [][/\ PlotsReferenceBlocks(land_blocks', land_plots')
     /\ PlotsReferenceBlocks(VisibleBlocks(1)', VisiblePlots(1)')
     /\ BlocksDeleted =>
          \A x \in VisiblePlots(1) : x.block_id \notin tx'[1].delB
     /\ ApplyInsertsPlot =>
          \A x \in tx'[1].insP \ tx[1].insP :
            \E b \in tx[1].insB :
              /\ x.block_id = b.id
              /\ b.id \notin Ids(tx[1].preB)
              /\ b.name = tx[1].blocks_json[tx[1].bi].name
              /\ \A o \in tx[1].insB : o.name = b.name => o = b]_vars

\* an apply is under way that deleted a block with a plot and has created
\* two blocks and a plot in each
C34_Witness ==
  /\ tx[1].op = "apply"
  /\ tx[1].delB # {} /\ tx[1].delP # {}
  /\ Cardinality(tx[1].insB) = 2
  /\ \A b \in tx[1].insB : \E x \in tx[1].insP : x.block_id = b.id

----------------------------------------------------------------------------
(* Claims about the activation of configurations *)

\* C35: no operation turns an inactive configuration active; a configuration
\* is active only from its creation by createSnapshot until the next
\* createSnapshot of its property: a new row is active only when a
\* createSnapshot returns it, an active row becomes inactive only at the
\* return of a createSnapshot of its property, and applyConfiguration on an
\* inactive configuration (a duplicate or a superseded snapshot) fails with
\* the not-found error
C35_InactiveStaysInactive ==
  [][/\ \A c \in property_land_configurations, n \in property_land_configurations' :
          c.id = n.id =>
            /\ ~ c.is_active => ~ n.is_active
            /\ (c.is_active /\ ~ n.is_active) =>
                 SnapshotReturns /\ tx[1].property_id_val = c.property_id
     /\ \A n \in property_land_configurations' :
          (n.id \notin Ids(property_land_configurations) /\ n.is_active)
          => SnapshotReturns /\ ret'[1].value = n.id
     /\ \A c \in property_land_configurations :
          (~ c.is_active /\ ApplyCalled(c.id))
          => /\ tx'[1].pc = "idle"
             /\ ret'[1].status = "error"
             /\ ret'[1].err = "Configuration not found or not active"]_vars

\* an apply of a snapshot superseded by a later snapshot of its property was
\* refused
C35_Witness ==
  /\ ret[1].op = "apply" /\ ret[1].status = "error"
  /\ ret[1].err = "Configuration not found or not active"
  /\ \E c, n \in property_land_configurations :
        /\ c.id = ret[1].arg /\ ~ c.is_active
        /\ n.property_id = c.property_id /\ n.is_active /\ n.id > c.id

\* C36: after any sequence of createSnapshot, duplicateConfiguration and
\* applyConfiguration calls a property that has a configuration has exactly
\* one active configuration, and it is the one created by the most recent
\* successful createSnapshot of the property: the return of a createSnapshot
\* makes its new configuration the only active one of its property, and no
\* other step changes which configuration of a property is active
C36_ActiveIsLatestSnapshot ==
  [][\A p \in Properties :
       /\ (\E c \in property_land_configurations' : c.property_id = p)
          => Cardinality(ActiveOf(property_land_configurations', p)) = 1
       /\ IF SnapshotReturns /\ tx[1].property_id_val = p
          THEN /\ ret'[1].value \notin Ids(property_land_configurations)
               /\ {c.id : c \in ActiveOf(property_land_configurations', p)}
                    = {ret'[1].value}
          ELSE ActiveOf(property_land_configurations', p)
                 = ActiveOf(property_land_configurations, p)]_vars

\* a snapshot superseded the configuration of its property and was then
\* duplicated; the snapshot is the active configuration
C36_Witness ==
  /\ ret[1].op = "duplicate" /\ ret[1].status = "ok"
  /\ \E old, snap, dup \in property_land_configurations :
        /\ old.property_id = snap.property_id /\ old.id < snap.id /\ ~ old.is_active
        /\ snap.id = ret[1].arg /\ snap.is_active /\ snap.id >= FirstId
        /\ dup.id = ret[1].value /\ ~ dup.is_active

----------------------------------------------------------------------------
(* Frame conditions of the configuration operations *)

\* a step of the call op of session 1: one of its statements, its return,
\* its failure or its cancellation
StepOf(op) ==
  \/ tx[1].op = op
  \/ tx'[1].op = op
  \/ CallBeginsAndEnds(op)

\* C37: createSnapshot and duplicateConfiguration change no block, plot or
\* history entry; applyConfiguration changes no configuration; and no step
\* of any operation removes a configuration or changes the property or the
\* payload of an existing one, whatever is done to the inventory afterwards
C37_ConfigurationFrames ==
  [][/\ (StepOf("createSnapshot") \/ StepOf("duplicate"))
          => UNCHANGED <<land_blocks, land_plots, land_plot_status_history>>
     /\ StepOf("apply") => UNCHANGED property_land_configurations
     /\ \A c \in property_land_configurations :
          \E n \in property_land_configurations' :
            /\ n.id = c.id
            /\ n.property_id = c.property_id
            /\ n.blocks_data = c.blocks_data]_vars

\* a snapshot was saved after a status update: the history has an entry and
\* the configuration saved before still has its payload, which differs from
\* that of the new snapshot
C37_Witness ==
  /\ ret[1].op = "createSnapshot" /\ ret[1].status = "ok"
  /\ land_plot_status_history # {}
  /\ \E old, new \in property_land_configurations :
        /\ new.id = ret[1].value
        /\ old.id < new.id /\ old.property_id = new.property_id
        /\ old.blocks_data \in AuditPayloads
        /\ ~ SamePayload(old.blocks_data, new.blocks_data)
        /\ \E i \in 1..Len(new.blocks_data) : \E j \in 1..Len(new.blocks_data[i].plots) :
              new.blocks_data[i].plots[j].status \in AuditStatusInputs

\* the rows of C that belong to property p
ConfigsOf(C, p) == {c \in C : c.property_id = p}

\* the step in which the call op of session 1 ends: it returns, fails or is
\* cancelled
CallOfEnds(op) == tx[1].op = op /\ tx'[1].pc = "idle"

\* C38: applyConfiguration(C) and createSnapshot(P, name) touch only their
\* own property: when the call ends, with success or with an error, the
\* blocks, plots and configurations of every other property are those of
\* before the call, and none of its steps changes them; a call refused at
\* once changes nothing at all
C38_OtherPropertiesUntouched ==
  [][/\ \A q \in Properties :
          ((CallOfEnds("apply") \/ CallOfEnds("createSnapshot"))
           /\ q # tx[1].property_id_val)
          => /\ BlocksOf(land_blocks', q) = BlocksOf(tx[1].preB, q)
             /\ PlotsOf(land_blocks', land_plots', q) = PlotsOf(tx[1].preB, tx[1].preP, q)
             /\ ConfigsOf(property_land_configurations', q) = ConfigsOf(tx[1].preC, q)
     /\ (/\ StepOf("apply") \/ StepOf("createSnapshot")
         /\ ~ (CallOfEnds("apply") \/ CallOfEnds("createSnapshot")))
          => UNCHANGED <<land_blocks, land_plots, property_land_configurations>>]_vars

\* an apply rebuilt the inventory of a property while another property had
\* a block, a plot and an active configuration
C38_Witness ==
  /\ ret[1].op = "apply" /\ ret[1].status = "ok"
  /\ SeedPlot1 \notin land_plots
  /\ \E c \in property_land_configurations :
        /\ c.id = ret[1].arg
        /\ \E q \in Properties \ {c.property_id} :
              /\ PlotsOf(land_blocks, land_plots, q) # {}
              /\ ActiveOf(property_land_configurations, q) # {}

----------------------------------------------------------------------------
(* Claims about the history and the statistics *)

\* the name of the block of plot x among the blocks B
BlockNameOf(B, x) == (CHOOSE b \in B : b.id = x.block_id).name

\* the plots the apply call of session 1 re-created with another status:
\* pairs of a plot of before the call and a plot inserted by the call with
\* the same number in a block of the same name
Restated ==
  {pair \in tx[1].preP \X tx[1].insP :
     /\ pair[1].block_id \in Ids(tx[1].preB)
     /\ pair[1].plot_number = pair[2].plot_number
     /\ BlockNameOf(tx[1].preB, pair[1]) = BlockNameOf(tx[1].insB, pair[2])
     /\ pair[1].status # pair[2].status}

\* C39: applyConfiguration never appends a history entry: no step of an
\* apply adds an entry, and after its return no entry refers to a plot it
\* created, also when a plot was re-created with another status than the
\* plot of the same number in the same block had before
C39_ApplyWritesNoHistory ==
  [][StepOf("apply") =>
       /\ land_plot_status_history' \subseteq land_plot_status_history
       /\ ApplyReturns =>
            \A h \in land_plot_status_history' : h.plot_id \notin Ids(tx[1].insP)]_vars

\* an apply is about to return that re-created, with another status, a plot
\* whose status had been updated and recorded in the history
C39_Witness ==
  /\ tx[1].op = "apply" /\ tx[1].pc = "ap_return"
  /\ \E pair \in Restated :
        \E h \in land_plot_status_history :
          h.plot_id = pair[1].id /\ h.new_status = pair[1].status

\* C40: in every reachable state the statistics of each property satisfy
\* available_plots + booked_plots + sold_plots + reserved_plots <=
\* total_plots, with equality exactly when no plot of the property has the
\* status blocked
C40_StatusCountsAndBlocked ==
  \A p \in Properties :
    LET row == get_property_land_statistics(land_blocks, land_plots, p)
        counted == row.available_plots + row.booked_plots + row.sold_plots
                     + row.reserved_plots
    IN /\ counted <= row.total_plots
       /\ counted = row.total_plots
            <=> ~ \E x \in PlotsOf(land_blocks, land_plots, p) : x.status = "blocked"

====
